---- MODULE Spec2Model ----
(***************************************************************************)
(* IPAnalyzer: CIDR arithmetic (ip_utils.py, ip_range_analyzer.py) and the *)
(* offline range tables (geoip_analyzer.py, bgp_analyzer.py).              *)
(*                                                                         *)
(* Representation.                                                         *)
(*  - A Python int n >= 0 is the finite set of the positions of its        *)
(*    one-bits (bit 0 is the least significant).  Python ints are          *)
(*    unbounded and so are these sets: x & y is \cap, x | y is \cup,       *)
(*    x << k is Shl(x, k), 0xFFFFFFFF is 0..31.  Small ints that the code  *)
(*    only counts with (prefix lengths, list indexes) are TLA+ integers.   *)
(*  - A Python str is the sequence of its characters, each a one-letter    *)
(*    string.  "10.0.0.1" is <<"1","0",".","0",".","0",".","1">>.          *)
(*  - A call either returns a value or raises: Return(v) / Raise(kind).    *)
(*  - A Python dict is a function from its keys; every atom stored in a    *)
(*    result dict (names, numbers, None) is written as a string.           *)
(*  - Dict objects live in a heap, identity -> contents, so that two       *)
(*    references to one object see each other's changes.  An object no     *)
(*    reference reaches is dropped and its identity may be reused.         *)
(***************************************************************************)
EXTENDS Integers, Sequences, FiniteSets, TLC

VARIABLES
    call,           \* the operation being invoked and its arguments
    ret,            \* what the operation returned or raised (Pending before)
    db,             \* GeoIPAnalyzer.db, the table of (start, end, metadata)
    prefix_table,   \* BGPAnalyzer.prefix_table
    geo_cache,      \* GeoIPAnalyzer._cache: address text -> result object
    bgp_cache,      \* BGPAnalyzer._cache: address text -> result object
    heap,           \* the live dict objects: identity -> contents
    threads,        \* per thread, where it is inside analyze and its locals
    dns_cache,      \* DNSBulkProcessor._cache: cache key -> result
    stats,          \* DNSBulkProcessor._stats: counter name -> count
    pool,           \* DNSBulkProcessor.threads, the number of worker threads
    whitelist,      \* ThreatIntelligence.whitelist
    blacklist,      \* ThreatIntelligence.blacklist
    history         \* ThreatIntelligence._history: address text -> records

analyzerVars == <<db, prefix_table, geo_cache, bgp_cache, heap, threads,
                  dns_cache, stats, pool, whitelist, blacklist, history>>
vars == <<call, ret, db, prefix_table, geo_cache, bgp_cache, heap, threads,
          dns_cache, stats, pool, whitelist, blacklist, history>>

---------------------------------------------------------------------------
(* Bounds of the model *)

\* the one-bits of an input address, or else its zero-bits, are one run of at
\* most this many adjacent bits
MaxRun == 1
\* subnet_division is asked for at most 2^MaxSplitBits subnets
MaxSplitBits == 2
\* multi-block operations draw their blocks from 2^NearBits neighbouring addresses
NearBits == 2
\* analyze_multiple_ranges is given at most this many blocks
MaxRanges == 3

\* sequences over S of length at most n
SeqUpTo(S, n) == UNION {[1..k -> S] : k \in 0..n}

---------------------------------------------------------------------------
(* Python values *)

Return(v) == [ok |-> TRUE, value |-> v]
Raise(kind) == [ok |-> FALSE, error |-> kind]
Pending == [ok |-> FALSE, error |-> "pending"]

\* the list with the elements f[1], ..., f[n], built once
List(f) == <<>> \o f

Max(S) == CHOOSE m \in S : \A x \in S : x <= m
Min(S) == CHOOSE m \in S : \A x \in S : m <= x

\* the Python int with the value of the TLA+ natural n (n < 2^31)
IntOf(n) == {i \in 0..30 : (n \div (2^i)) % 2 = 1}

\* the TLA+ natural with the value of the Python int x (x < 2^31)
RECURSIVE NatOf(_)
NatOf(x) ==
    IF x = {} THEN 0
    ELSE LET rest(i) == (2 ^ i) + NatOf(x \ {i}) IN rest(CHOOSE j \in x : TRUE)

Shl(x, k) == {i + k : i \in x}
Shr(x, k) == {i - k : i \in {j \in x : j >= k}}
Xor(x, y) == (x \ y) \cup (y \ x)
Leq(x, y) == x = y \/ Max(Xor(x, y)) \in y
Lt(x, y) == x # y /\ Leq(x, y)

RECURSIVE Add(_, _)
Add(x, y) == IF y = {} THEN x ELSE Add(Xor(x, y), Shl(x \cap y, 1))

\* x - y for x >= y
RECURSIVE Sub(_, _)
Sub(x, y) == IF y = {} THEN x ELSE Sub(Xor(x, y), Shl(y \ x, 1))

\* int.bit_length()
RECURSIVE Mul(_, _)
Mul(x, y) ==
    LET shifted(k) == Add(Shl(x, k), Mul(x, y \ {k}))
    IN  IF y = {} THEN {} ELSE shifted(CHOOSE k \in y : TRUE)

bit_length(x) == IF x = {} THEN 0 ELSE Max(x) + 1

xFFFFFFFF == 0..31
xFF == 0..7

---------------------------------------------------------------------------
(* Python strings *)

Digits == <<"0", "1", "2", "3", "4", "5", "6", "7", "8", "9">>
IsDigit(c) == \E d \in 1..10 : Digits[d] = c
DigitVal(c) == (CHOOSE d \in 1..10 : Digits[d] = c) - 1
IsSpace(c) == c \in {" ", "\n"}
AllDigits(s) == \A i \in 1..Len(s) : IsDigit(s[i])

\* str(n) for a natural n
RECURSIVE Dec(_)
Dec(n) == IF n < 10 THEN <<Digits[n + 1]>>
          ELSE Dec(n \div 10) \o <<Digits[(n % 10) + 1]>>

\* s.split(sep) for a one-character separator
RECURSIVE Split(_, _)
Split(s, sep) ==
    IF \A i \in 1..Len(s) : s[i] # sep THEN <<s>>
    ELSE LET cut(k) == <<SubSeq(s, 1, k - 1)>> \o Split(SubSeq(s, k + 1, Len(s)), sep)
         IN  cut(Min({i \in 1..Len(s) : s[i] = sep}))

\* s.strip()
RECURSIVE Strip(_)
Strip(s) ==
    IF s = <<>> THEN s
    ELSE IF IsSpace(s[1]) THEN Strip(Tail(s))
    ELSE IF IsSpace(s[Len(s)]) THEN Strip(SubSeq(s, 1, Len(s) - 1))
    ELSE s

\* the value of a run of decimal digits, as a TLA+ integer
RECURSIVE DecVal(_)
DecVal(s) == IF s = <<>> THEN 0
             ELSE 10 * DecVal(SubSeq(s, 1, Len(s) - 1)) + DigitVal(s[Len(s)])

\* int(s): surrounding whitespace and one sign are accepted
py_int(s) ==
    LET digits(t, signed) ==
            LET conv(d) ==
                    IF d = <<>> \/ ~AllDigits(d) THEN Raise("ValueError")
                    ELSE Return(IF signed /\ t[1] = "-" THEN 0 - DecVal(d) ELSE DecVal(d))
            IN  conv(IF signed THEN Tail(t) ELSE t)
        stripped(t) == digits(t, t # <<>> /\ t[1] \in {"-", "+"})
    IN  stripped(Strip(s))

---------------------------------------------------------------------------
(* ip_utils.py: IPValidator *)

\* the texts a pattern ending in $ is matched against: $ also matches just
\* before one final newline
BeforeEnd(s) ==
    {s} \cup (IF s # <<>> /\ s[Len(s)] = "\n" THEN {SubSeq(s, 1, Len(s) - 1)} ELSE {})

\* four groups (\d{1,3}) with every group at most 255
GroupsOk(g) ==
    /\ Len(g) = 4
    /\ \A k \in 1..4 : Len(g[k]) \in 1..3 /\ AllDigits(g[k])
    /\ \A k \in 1..4 : ~(DecVal(g[k]) > 255)

is_valid_ipv4(ip) == \E t \in BeforeEnd(ip) : GroupsOk(Split(t, "."))

is_valid_cidr(cidr) ==
    \E t \in BeforeEnd(cidr) :
        \E f \in {Split(t, "/")} :
            /\ Len(f) = 2
            /\ GroupsOk(Split(f[1], "."))
            /\ Len(f[2]) \in 1..2 /\ AllDigits(f[2])
            /\ ~(DecVal(f[2]) < 0 \/ DecVal(f[2]) > 32)

---------------------------------------------------------------------------
(* ip_utils.py: IPConverter *)

\* one number of an address text as the C library reads it: a leading 0
\* makes it octal, anything but digits of the base ends the parse in failure
\* (the alphabet of the model has no letter x, so no hexadecimal numbers)
RECURSIVE NumVal(_, _)
NumVal(s, octal) ==
    IF s = <<>> THEN {}
    ELSE LET shift(v, d) == IF octal THEN Add(Shl(v, 3), d)
                            ELSE Add(Shl(v, 3), Add(Shl(v, 1), d))
         IN  shift(NumVal(SubSeq(s, 1, Len(s) - 1), octal), IntOf(DigitVal(s[Len(s)])))

strtoul(s) ==
    IF s = <<>> \/ ~AllDigits(s) THEN Raise("OSError")
    ELSE IF Len(s) > 1 /\ s[1] = "0" /\ \E i \in 1..Len(s) : DigitVal(s[i]) > 7
         THEN Raise("OSError")
         ELSE Return(NumVal(s, Len(s) > 1 /\ s[1] = "0"))

\* the text up to its first whitespace
UpToSpace(s) ==
    IF \A i \in 1..Len(s) : ~IsSpace(s[i]) THEN s
    ELSE SubSeq(s, 1, Min({i \in 1..Len(s) : IsSpace(s[i])}) - 1)

\* socket.inet_aton: one to four numbers separated by dots, the last one
\* filling the bytes that remain; the text may go on after a whitespace
inet_aton(s) ==
    LET pack(n, num) ==
            IF n > 4 \/ \E k \in 1..n : ~num[k].ok THEN Raise("OSError")
            ELSE IF \E k \in 1..(n - 1) : ~(num[k].value \subseteq xFF) THEN Raise("OSError")
            ELSE IF ~(num[n].value \subseteq 0..((8 * (5 - n)) - 1)) THEN Raise("OSError")
            ELSE Return(UNION {Shl(num[k].value, 8 * (4 - k)) : k \in 1..(n - 1)}
                        \cup num[n].value)
        numbers(parts) == pack(Len(parts), List([k \in 1..Len(parts) |-> strtoul(parts[k])]))
    IN  numbers(Split(UpToSpace(s), "."))

ip_to_int(ip) ==
    LET unpack(packed) == IF packed.ok THEN Return(packed.value) ELSE Raise("ValueError")
    IN  unpack(inet_aton(ip))

\* byte k (0 is the first, most significant) of struct.pack('>I', num)
Byte(num, k) == NatOf(Shr(num, 8 * (3 - k)) \cap xFF)

\* faulty variant: the bytes in little-endian order
int_to_ip_little_endian(num) ==
    Dec(Byte(num, 3)) \o <<".">> \o Dec(Byte(num, 2)) \o <<".">>
        \o Dec(Byte(num, 1)) \o <<".">> \o Dec(Byte(num, 0))

\* socket.inet_ntoa(struct.pack('>I', num)), for 0 <= num <= 0xFFFFFFFF
int_to_ip(num) ==
    Dec(Byte(num, 0)) \o <<".">> \o Dec(Byte(num, 1)) \o <<".">>
        \o Dec(Byte(num, 2)) \o <<".">> \o Dec(Byte(num, 3))

---------------------------------------------------------------------------
(* ip_utils.py: CIDRCalculator *)

\* faulty variant: the shifted value is not cut back to 32 bits
mask_bits_uncut(prefix) == Shl(xFFFFFFFF, 32 - prefix)

\* (0xFFFFFFFF << (32 - prefix)) & 0xFFFFFFFF, for 32 - prefix >= 0
mask_bits(prefix) == Shl(xFFFFFFFF, 32 - prefix) \cap xFFFFFFFF

\* faulty variant: the base address is kept as given
network_int_unmasked(ip_int, mask) == ip_int

\* ip_int & mask_bits
network_int(ip_int, mask) == ip_int \cap mask

\* network_int | (~mask_bits & 0xFFFFFFFF)
broadcast_int(network, mask) == network \cup (xFFFFFFFF \ mask)

\* returns the tuple (network_ip, broadcast_ip, netmask, prefix)
parse_cidr(cidr) ==
    LET result(prefix, mask, network) ==
            Return(<<int_to_ip(network),
                     int_to_ip(broadcast_int(network, mask)),
                     int_to_ip(mask),
                     prefix>>)
        masked(prefix, mask, ip_int) ==
            IF ~ip_int.ok THEN ip_int
            ELSE result(prefix, mask, network_int(ip_int.value, mask))
        converted(ip, prefix) ==
            IF ~prefix.ok THEN prefix
            ELSE IF 32 - prefix.value < 0 THEN Raise("ValueError")
            ELSE masked(prefix.value, mask_bits(prefix.value), ip_to_int(ip))
        fields(f) ==
            IF Len(f) # 2 THEN Raise("ValueError")
            ELSE converted(f[1], py_int(f[2]))
    IN  fields(Split(cidr, "/"))

\* returns the tuple (start_int, end_int)
get_ip_range(cidr) ==
    LET ints(s, e) ==
            IF ~s.ok THEN s ELSE IF ~e.ok THEN e ELSE Return(<<s.value, e.value>>)
        parsed(p) ==
            IF ~p.ok THEN p ELSE ints(ip_to_int(p.value[1]), ip_to_int(p.value[2]))
    IN  parsed(parse_cidr(cidr))

\* faulty variant: a step of half a subnet
step_halved(subnet_prefix) == {31 - subnet_prefix}

\* step = 2 ** (32 - subnet_prefix)
step(subnet_prefix) == {32 - subnet_prefix}

subnets_from_cidr(cidr, subnet_prefix) ==
    LET subnets(ip_int, num_subnets) ==
            Return(List([i \in 1..num_subnets |->
                int_to_ip(Add(ip_int, Mul(IntOf(i - 1), step(subnet_prefix))))
                    \o <<"/">> \o Dec(subnet_prefix)]))
        parsed(p) ==
            IF ~p.ok THEN p
            ELSE IF subnet_prefix <= p.value[4] THEN Return(<<cidr>>)
            ELSE IF subnet_prefix > 32 THEN Raise("struct.error")
            ELSE subnets(ip_to_int(p.value[1]).value, 2 ^ (subnet_prefix - p.value[4]))
    IN  parsed(parse_cidr(cidr))

---------------------------------------------------------------------------
(* ip_range_analyzer.py: IPRangeAnalyzer *)

get_ip_class(ip) ==
    LET class(first_octet) ==
            IF first_octet < 128 THEN "Class A"
            ELSE IF first_octet < 192 THEN "Class B"
            ELSE IF first_octet < 224 THEN "Class C"
            ELSE IF first_octet < 240 THEN "Class D (Multicast)"
            ELSE "Class E (Reserved)"
    IN  class(DecVal(Split(ip, ".")[1]))

\* faulty variant: only the network address is excluded
usable_hosts_less_one(total_hosts) ==
    IF Leq(total_hosts, IntOf(1)) THEN IntOf(0) ELSE Sub(total_hosts, IntOf(1))

\* usable_hosts = max(0, total_hosts - 2)
usable_hosts(total_hosts) ==
    IF Leq(total_hosts, IntOf(2)) THEN IntOf(0) ELSE Sub(total_hosts, IntOf(2))

analyze_cidr(cidr) ==
    LET result(p, start_int, end_int, total_hosts, usable) ==
            Return([cidr |-> cidr,
                    network_ip |-> p[1],
                    broadcast_ip |-> p[2],
                    netmask |-> p[3],
                    prefix_length |-> p[4],
                    total_addresses |-> total_hosts,
                    usable_hosts |-> usable,
                    ip_class |-> get_ip_class(p[1]),
                    first_usable |-> IF usable # {}
                                     THEN int_to_ip(Add(start_int, IntOf(1)))
                                     ELSE p[1],
                    last_usable |-> IF usable # {}
                                    THEN int_to_ip(Sub(end_int, IntOf(1)))
                                    ELSE p[2]])
        counted(p, start_int, end_int, total_hosts) ==
            result(p, start_int, end_int, total_hosts, usable_hosts(total_hosts))
        parsed(p, r) ==
            IF ~p.ok THEN p ELSE IF ~r.ok THEN r
            ELSE counted(p.value, r.value[1], r.value[2],
                         Add(Sub(r.value[2], r.value[1]), IntOf(1)))
    IN  IF ~is_valid_cidr(cidr) THEN Raise("ValueError")
        ELSE parsed(parse_cidr(cidr), get_ip_range(cidr))

get_subnet_mask_from_prefix(prefix) ==
    IF ~(0 <= prefix /\ prefix <= 32) THEN Raise("ValueError")
    ELSE Return(int_to_ip(Shl(xFFFFFFFF, 32 - prefix) \cap xFFFFFFFF))

\* faulty variant: the loop runs upwards from 0 and stops at the first agreement
CommonPrefix_upwards(ips_and_prefixes, min_prefix) ==
    LET first(agree) == IF agree = {} THEN -1 ELSE Min(agree)
    IN  first({new_prefix \in 0..min_prefix :
                \A mask \in {Shl(xFFFFFFFF, 32 - new_prefix) \cap xFFFFFFFF} :
                    \A k \in 1..Len(ips_and_prefixes) :
                        (ips_and_prefixes[k][1] \cap mask) = (ips_and_prefixes[1][1] \cap mask)})

\* the loop over new_prefix = min_prefix, min_prefix - 1, ..., 0 of supernet:
\* the first new_prefix under whose mask all the network addresses agree
\* (-1 when the loop ends without one)
CommonPrefix(ips_and_prefixes, min_prefix) ==
    LET first(agree) == IF agree = {} THEN -1 ELSE Max(agree)
    IN  first({new_prefix \in 0..min_prefix :
                \A mask \in {Shl(xFFFFFFFF, 32 - new_prefix) \cap xFFFFFFFF} :
                    \A k \in 1..Len(ips_and_prefixes) :
                        (ips_and_prefixes[k][1] \cap mask) = (ips_and_prefixes[1][1] \cap mask)})

\* faulty variant: the block of all addresses as a default
empty_cidrs_default(cidrs) == Return(<<"0", ".", "0", ".", "0", ".", "0", "/", "0">>)

\* if not cidrs: raise ValueError("Empty CIDR list")
empty_cidrs(cidrs) == Raise("ValueError")

\* faulty variant: the address of the first block as it is
first_unmasked(first_ip, new_prefix) == first_ip

\* first_masked = ips_and_prefixes[0][0] & mask
first_masked(first_ip, new_prefix) ==
    first_ip \cap (Shl(xFFFFFFFF, 32 - new_prefix) \cap xFFFFFFFF)

\* faulty variant: the prefix length of the first block
min_prefix_of_first(ips_and_prefixes) == ips_and_prefixes[1][2]

\* min_prefix = min(p[1] for p in ips_and_prefixes)
min_prefix(ips_and_prefixes) ==
    Min({ips_and_prefixes[k][2] : k \in 1..Len(ips_and_prefixes)})

supernet(cidrs) ==
    LET found(first_ip, new_prefix) ==
            IF new_prefix = -1
            THEN Return(<<"0", ".", "0", ".", "0", ".", "0", "/", "0">>)
            ELSE Return(int_to_ip(first_masked(first_ip, new_prefix))
                        \o <<"/">> \o Dec(new_prefix))
        common(ips_and_prefixes) ==
            found(ips_and_prefixes[1][1],
                  CommonPrefix(ips_and_prefixes, min_prefix(ips_and_prefixes)))
        all(parsed) ==
            IF \E k \in 1..Len(cidrs) : ~parsed[k].ok
            THEN parsed[Min({k \in 1..Len(cidrs) : ~parsed[k].ok})]
            ELSE common(List([k \in 1..Len(cidrs) |->
                    <<ip_to_int(parsed[k].value[1]).value, parsed[k].value[4]>>]))
    IN  IF cidrs = <<>> THEN empty_cidrs(cidrs)
        ELSE IF Len(cidrs) = 1 THEN Return(cidrs[1])
        ELSE all(List([k \in 1..Len(cidrs) |-> parse_cidr(cidrs[k])]))

\* faulty variant: a request that does not divide is refused
no_division_refused(cidr) == Raise("ValueError")

\* if new_prefix <= original_prefix: return [cidr]
no_division(cidr) == Return(<<cidr>>)

subnet_division(cidr, new_prefix) ==
    LET parsed(p) ==
            IF ~p.ok THEN p
            ELSE IF new_prefix <= p.value[4] THEN no_division(cidr)
            ELSE subnets_from_cidr(cidr, new_prefix)
    IN  IF ~is_valid_cidr(cidr) THEN Raise("ValueError")
        ELSE parsed(parse_cidr(cidr))

ip_in_range(ip, cidr) ==
    LET within(ip_int, r) ==
            IF ~ip_int.ok THEN ip_int ELSE IF ~r.ok THEN r
            ELSE Return(Leq(r.value[1], ip_int.value) /\ Leq(ip_int.value, r.value[2]))
    IN  IF ~is_valid_ipv4(ip) THEN Raise("ValueError")
        ELSE IF ~is_valid_cidr(cidr) THEN Raise("ValueError")
        ELSE within(ip_to_int(ip), get_ip_range(cidr))

\* faulty variant: ranges that meet in one address only are taken as disjoint
find_overlaps_strict(cidr1, cidr2) ==
    LET ranges(r1, r2) ==
            IF ~r1.ok THEN r1 ELSE IF ~r2.ok THEN r2
            ELSE Return(~(Leq(r1.value[2], r2.value[1]) \/ Leq(r2.value[2], r1.value[1])))
    IN  ranges(get_ip_range(cidr1), get_ip_range(cidr2))

\* faulty variant: the network address is listed too
get_usable_ips_from_start(cidr) ==
    LET listed(r) ==
            IF ~r.ok THEN r
            ELSE IF Lt(Add(r.value[1], IntOf(2)), r.value[2])
            THEN Return(List([i \in 1..NatOf(Sub(r.value[2], r.value[1])) |->
                                int_to_ip(Add(r.value[1], IntOf(i - 1)))]))
            ELSE Return(<<>>)
    IN  listed(get_ip_range(cidr))

\* CIDRCalculator.get_usable_ips: range(start_int + 1, end_int) when
\* end_int - start_int > 2, a difference that may be negative: it is compared
\* as start_int + 2 < end_int
get_usable_ips(cidr) ==
    LET listed(r) ==
            IF ~r.ok THEN r
            ELSE IF Lt(Add(r.value[1], IntOf(2)), r.value[2])
            THEN Return(List([i \in 1..(NatOf(Sub(r.value[2], r.value[1])) - 1) |->
                                int_to_ip(Add(r.value[1], IntOf(i)))]))
            ELSE Return(<<>>)
    IN  listed(get_ip_range(cidr))

\* ips[:limit]: a negative limit counts from the end of the list
generate_ip_list(cidr, limit) ==
    LET sliced(ips) ==
            IF ~ips.ok THEN ips
            ELSE IF limit >= 0 THEN Return(SubSeq(ips.value, 1, Min({limit, Len(ips.value)})))
            ELSE Return(SubSeq(ips.value, 1, Max({0, Len(ips.value) + limit})))
    IN  sliced(get_usable_ips(cidr))

\* faulty variant: only one of the two comparisons
find_overlaps_one_sided(cidr1, cidr2) ==
    LET ranges(r1, r2) ==
            IF ~r1.ok THEN r1 ELSE IF ~r2.ok THEN r2
            ELSE Return(~Lt(r1.value[2], r2.value[1]))
    IN  ranges(get_ip_range(cidr1), get_ip_range(cidr2))

find_overlaps(cidr1, cidr2) ==
    LET ranges(r1, r2) ==
            IF ~r1.ok THEN r1 ELSE IF ~r2.ok THEN r2
            ELSE Return(~(Lt(r1.value[2], r2.value[1]) \/ Lt(r2.value[2], r1.value[1])))
    IN  ranges(get_ip_range(cidr1), get_ip_range(cidr2))

\* faulty variant: the inner loop starts at the block itself
inner_start_at_i(i) == i

\* for j in range(i + 1, len(cidrs)): the first j
inner_start(i) == i + 1

\* the two loops of _check_all_overlaps, at indices i and j (counted from 1)
RECURSIVE check_pairs(_, _, _, _)
check_pairs(cidrs, i, j, overlaps) ==
    LET found(r) ==
            IF ~r.ok THEN r
            ELSE check_pairs(cidrs, i, j + 1,
                             IF r.value
                             THEN Append(overlaps, [cidr1 |-> cidrs[i], cidr2 |-> cidrs[j]])
                             ELSE overlaps)
    IN  IF i > Len(cidrs) THEN Return(overlaps)
        ELSE IF j > Len(cidrs) THEN check_pairs(cidrs, i + 1, inner_start(i + 1), overlaps)
        ELSE found(find_overlaps(cidrs[i], cidrs[j]))

_check_all_overlaps(cidrs) == check_pairs(cidrs, 1, inner_start(1), <<>>)

\* the loop of analyze_multiple_ranges over cidrs[k..]
RECURSIVE analyze_each(_, _, _, _)
analyze_each(cidrs, k, analyses, total_ips) ==
    LET appended(analysis) ==
            IF ~analysis.ok THEN analysis
            ELSE analyze_each(cidrs, k + 1, Append(analyses, analysis.value),
                              Add(total_ips, analysis.value.total_addresses))
    IN  IF k > Len(cidrs) THEN Return(<<analyses, total_ips>>)
        ELSE appended(analyze_cidr(cidrs[k]))

analyze_multiple_ranges(cidrs) ==
    LET report(a, s, o) ==
            IF ~a.ok THEN a ELSE IF ~s.ok THEN s ELSE IF ~o.ok THEN o
            ELSE Return([ranges |-> a.value[1],
                         total_ranges |-> Len(cidrs),
                         total_addresses |-> a.value[2],
                         supernet |-> s.value,
                         overlaps |-> o.value])
    IN  report(analyze_each(cidrs, 1, <<>>, IntOf(0)), supernet(cidrs), _check_all_overlaps(cidrs))

---------------------------------------------------------------------------
(* The inputs of the CIDR operations *)

\* the text "a.b.c.d"
Dotted(a, b, c, d) ==
    Dec(a) \o <<".">> \o Dec(b) \o <<".">> \o Dec(c) \o <<".">> \o Dec(d)

\* the text "address/prefix" for an address value and a prefix length
Cidr(a, p) == int_to_ip(a) \o <<"/">> \o Dec(p)

\* the 32-bit values whose one-bits are one run of at most k adjacent bits
Runs(k) ==
    {{}} \cup {r \in {i..(i + len - 1) : i \in 0..31, len \in 1..k} : r \subseteq xFFFFFFFF}

WideAddrs == Runs(MaxRun) \cup {xFFFFFFFF \ x : x \in Runs(MaxRun)}
WideBlocks == {Cidr(a, p) : a \in WideAddrs, p \in 0..32}

\* neighbouring addresses on both sides of 192.168.1.0
NearBase == ip_to_int(Dotted(192, 168, 0, 254)).value
NearAddrs == {Add(NearBase, IntOf(k)) : k \in 0..((2 ^ NearBits) - 1)}
NearPrefixes == {23, 24} \cup ((32 - NearBits)..32)
NearBlocks == {Cidr(a, p) : a \in NearAddrs, p \in NearPrefixes}

\* the blocks of a multi-range report: nested, adjacent and equal ones
MultiBlocks ==
    {Cidr(NearBase, 23), Cidr(NearBase, 24),
     Cidr(Add(NearBase, IntOf(2)), 24), Cidr(Add(NearBase, IntOf(2)), 32)}

\* octets of the addresses converted, among them 8, 9 and 10
QuadOctets == {<<1, 2, 3, 4>>, <<8, 9, 10, 100>>, <<10, 0, 0, 1>>, <<0, 7, 77, 255>>}

\* the num arguments of int_to_ip
ConvAddrs ==
    WideAddrs \cup NearAddrs
    \cup {ip_to_int(Dotted(o[1], o[2], o[3], o[4])).value : o \in QuadOctets}

\* the text "0a.0b.0c.0d": every octet written with a leading zero
Padded(a, b, c, d) ==
    <<"0">> \o Dec(a) \o <<".", "0">> \o Dec(b) \o <<".", "0">> \o Dec(c)
        \o <<".", "0">> \o Dec(d)

\* the ip arguments of ip_to_int: plain dotted quads, dotted quads with
\* leading zeros, and texts that are no dotted quad
IpTexts ==
    {int_to_ip(a) : a \in ConvAddrs}
    \cup {Padded(o[1], o[2], o[3], o[4]) : o \in QuadOctets}
    \cup {<<"0", "1", "0">> \o <<".">> \o Dec(0) \o <<".">> \o Dec(0) \o <<".">> \o Dec(1),
          Dotted(256, 1, 1, 1), Dotted(1, 2, 3, 4) \o <<"\n">>,
          <<"1", ".", "2", ".", "3">>, <<>>}

\* ip_utils.py: IPClassifier
PRIVATE_RANGES ==
    <<<<ip_to_int(Dotted(10, 0, 0, 0)).value, ip_to_int(Dotted(10, 255, 255, 255)).value>>,
      <<ip_to_int(Dotted(172, 16, 0, 0)).value, ip_to_int(Dotted(172, 31, 255, 255)).value>>,
      <<ip_to_int(Dotted(192, 168, 0, 0)).value, ip_to_int(Dotted(192, 168, 255, 255)).value>>>>

\* faulty variant: the last address of every range is left out
is_private_open(ip) ==
    LET inside(ip_int) ==
            IF ~ip_int.ok THEN ip_int
            ELSE Return(\E k \in 1..Len(PRIVATE_RANGES) :
                    /\ Leq(PRIVATE_RANGES[k][1], ip_int.value)
                    /\ Lt(ip_int.value, PRIVATE_RANGES[k][2]))
    IN  inside(ip_to_int(ip))

is_private(ip) ==
    LET inside(ip_int) ==
            IF ~ip_int.ok THEN ip_int
            ELSE Return(\E k \in 1..Len(PRIVATE_RANGES) :
                    /\ Leq(PRIVATE_RANGES[k][1], ip_int.value)
                    /\ Leq(ip_int.value, PRIVATE_RANGES[k][2]))
    IN  inside(ip_to_int(ip))

\* 2130706432 <= ip_int <= 2147483647: the literals are 127 * 2^24 and 2^31 - 1
is_loopback(ip) ==
    LET inside(ip_int) ==
            IF ~ip_int.ok THEN ip_int
            ELSE Return(Leq(Shl(IntOf(127), 24), ip_int.value) /\ Leq(ip_int.value, 0..30))
    IN  inside(ip_to_int(ip))

\* 2851995648 <= ip_int <= 2852061183: the literals are 43518 * 2^16 and
\* 43518 * 2^16 + 65535
is_link_local(ip) ==
    LET inside(ip_int) ==
            IF ~ip_int.ok THEN ip_int
            ELSE Return(/\ Leq(Shl(IntOf(43518), 16), ip_int.value)
                        /\ Leq(ip_int.value, Shl(IntOf(43518), 16) \cup IntOf(65535)))
    IN  inside(ip_to_int(ip))

classify(ip) ==
    LET chain(loopback, link_local, private) ==
            IF ~loopback.ok THEN loopback
            ELSE IF loopback.value THEN Return("Loopback")
            ELSE IF ~link_local.ok THEN link_local
            ELSE IF link_local.value THEN Return("Link-Local")
            ELSE IF ~private.ok THEN private
            ELSE IF private.value THEN Return("Private")
            ELSE Return("Public")
    IN  chain(is_loopback(ip), is_link_local(ip), is_private(ip))

\* the ip arguments of classify: the first and the last address of the
\* loopback, link-local and private ranges, the addresses next to them, and
\* texts that are no address
ClassifyTexts ==
    {int_to_ip(a) : a \in UNION {{Sub(r[1], IntOf(1)), r[1], r[2], Add(r[2], IntOf(1))} :
            r \in {PRIVATE_RANGES[k] : k \in 1..Len(PRIVATE_RANGES)}
                \cup {<<Shl(IntOf(127), 24), 0..30>>,
                      <<Shl(IntOf(43518), 16), Shl(IntOf(43518), 16) \cup IntOf(65535)>>}}}
    \cup {Dotted(8, 8, 8, 8), Dotted(192, 168, 1, 1), Dotted(127, 0, 0, 1),
          Dotted(256, 1, 1, 1), <<>>}

\* the blocks whose addresses are listed: small ones, and one of 256 addresses
ListedBlocks ==
    {Cidr(a, p) : a \in NearAddrs, p \in ((32 - NearBits) - 1)..32} \cup {Cidr(NearBase, 24)}

\* the limit arguments of generate_ip_list, 1000 being the default
Limits == {-1, 0, 1, 2, 1000}

\* texts that are no CIDR block
BadCidrs ==
    LET ip == Dotted(10, 0, 0, 0)
    IN  { ip \o <<"/", "-", "1">>,
          ip \o <<"/", "3", "3">>,
          ip \o <<"/", "a">>,
          ip \o <<"/">>,
          ip \o <<"/", "8", "/", "9">>,
          ip,
          <<"/", "8">>,
          <<>>,
          <<"1", "0", ".", "1", "/", "8">>,
          Dotted(256, 1, 1, 1) \o <<"/", "8">>,
          Dotted(1, 2, 3, 4) \o <<".", "/", "8">>,
          Dotted(1, 2, 3, 4) \o <<"a", "/", "8">>,
          Dotted(1, 2, 3, 4) \o <<" ", "5", "/", "8">>,
          <<"a", "/", "8">> }

---------------------------------------------------------------------------
(* The CIDR operations as a state machine: a call is drawn, then answered *)

\* no analyzer object takes part in the CIDR operations
NoAnalyzer ==
    /\ db = <<>> /\ prefix_table = <<>>
    /\ geo_cache = <<>> /\ bgp_cache = <<>>
    /\ heap = <<>> /\ threads = <<>>
    /\ dns_cache = <<>> /\ stats = <<>> /\ pool = 0
    /\ whitelist = {} /\ blacklist = {} /\ history = <<>>

Init ==
    /\ ret = Pending
    /\ NoAnalyzer
    /\ \/ \E num \in ConvAddrs : call = [op |-> "int_to_ip", num |-> num]
       \/ \E ip \in IpTexts : call = [op |-> "ip_to_int", ip |-> ip]
       \/ \E t \in WideBlocks \cup NearBlocks \cup BadCidrs :
            \E op \in {"parse_cidr", "get_ip_range", "analyze_cidr"} :
                call = [op |-> op, cidr |-> t]
       \/ \E prefix \in -1..33 :
            call = [op |-> "get_subnet_mask_from_prefix", prefix |-> prefix]
       \/ \E a \in WideAddrs, p \in 0..32 :
            \E n \in (p - 1)..(p + MaxSplitBits) :
                call = [op |-> "subnet_division", cidr |-> Cidr(a, p), new_prefix |-> n]
       \/ \E t \in BadCidrs :
            call = [op |-> "subnet_division", cidr |-> t, new_prefix |-> 24]
       \/ \E a \in NearAddrs, t \in NearBlocks \cup BadCidrs :
            call = [op |-> "ip_in_range", ip |-> int_to_ip(a), cidr |-> t]
       \/ \E t1, t2 \in NearBlocks \cup BadCidrs :
            call = [op |-> "find_overlaps", cidr1 |-> t1, cidr2 |-> t2]
       \/ call = [op |-> "supernet", cidrs |-> <<>>]
       \/ \E t \in NearBlocks \cup BadCidrs :
            call = [op |-> "supernet", cidrs |-> <<t>>]
       \/ \E t1, t2 \in NearBlocks \cup BadCidrs :
            call = [op |-> "supernet", cidrs |-> <<t1, t2>>]
       \/ \E t \in ListedBlocks : call = [op |-> "get_usable_ips", cidr |-> t]
       \/ \E t \in ListedBlocks, limit \in Limits :
            call = [op |-> "generate_ip_list", cidr |-> t, limit |-> limit]
       \/ \E ip \in ClassifyTexts : call = [op |-> "classify", ip |-> ip]
       \/ \E cidrs \in SeqUpTo(MultiBlocks, MaxRanges) :
            call = [op |-> "analyze_multiple_ranges", cidrs |-> cidrs]
       \/ \E t1 \in MultiBlocks, t2 \in BadCidrs :
            call = [op |-> "analyze_multiple_ranges", cidrs |-> <<t1, t2>>]
       \/ \E t1 \in NearBlocks, t2 \in MultiBlocks, a \in {NearBase, Add(NearBase, IntOf((2 ^ NearBits) - 1))} :
            call = [op |-> "supernet", cidrs |-> <<t1, t2, Cidr(a, 32)>>]

ParseCidr ==
    /\ call.op = "parse_cidr" /\ ret = Pending
    /\ ret' = parse_cidr(call.cidr)
    /\ UNCHANGED <<call, analyzerVars>>

GetIpRange ==
    /\ call.op = "get_ip_range" /\ ret = Pending
    /\ ret' = get_ip_range(call.cidr)
    /\ UNCHANGED <<call, analyzerVars>>

AnalyzeCidr ==
    /\ call.op = "analyze_cidr" /\ ret = Pending
    /\ ret' = analyze_cidr(call.cidr)
    /\ UNCHANGED <<call, analyzerVars>>

GetSubnetMaskFromPrefix ==
    /\ call.op = "get_subnet_mask_from_prefix" /\ ret = Pending
    /\ ret' = get_subnet_mask_from_prefix(call.prefix)
    /\ UNCHANGED <<call, analyzerVars>>

SubnetDivision ==
    /\ call.op = "subnet_division" /\ ret = Pending
    /\ ret' = subnet_division(call.cidr, call.new_prefix)
    /\ UNCHANGED <<call, analyzerVars>>

IpInRange ==
    /\ call.op = "ip_in_range" /\ ret = Pending
    /\ ret' = ip_in_range(call.ip, call.cidr)
    /\ UNCHANGED <<call, analyzerVars>>

FindOverlaps ==
    /\ call.op = "find_overlaps" /\ ret = Pending
    /\ ret' = find_overlaps(call.cidr1, call.cidr2)
    /\ UNCHANGED <<call, analyzerVars>>

Supernet ==
    /\ call.op = "supernet" /\ ret = Pending
    /\ ret' = supernet(call.cidrs)
    /\ UNCHANGED <<call, analyzerVars>>

AnalyzeMultipleRanges ==
    /\ call.op = "analyze_multiple_ranges" /\ ret = Pending
    /\ ret' = analyze_multiple_ranges(call.cidrs)
    /\ UNCHANGED <<call, analyzerVars>>

GetUsableIps ==
    /\ call.op = "get_usable_ips" /\ ret = Pending
    /\ ret' = get_usable_ips(call.cidr)
    /\ UNCHANGED <<call, analyzerVars>>

GenerateIpList ==
    /\ call.op = "generate_ip_list" /\ ret = Pending
    /\ ret' = generate_ip_list(call.cidr, call.limit)
    /\ UNCHANGED <<call, analyzerVars>>

Classify ==
    /\ call.op = "classify" /\ ret = Pending
    /\ ret' = classify(call.ip)
    /\ UNCHANGED <<call, analyzerVars>>

IntToIp ==
    /\ call.op = "int_to_ip" /\ ret = Pending
    /\ ret' = Return(int_to_ip(call.num))
    /\ UNCHANGED <<call, analyzerVars>>

IpToInt ==
    /\ call.op = "ip_to_int" /\ ret = Pending
    /\ ret' = ip_to_int(call.ip)
    /\ UNCHANGED <<call, analyzerVars>>

Next ==
    \/ ParseCidr
    \/ GetIpRange
    \/ AnalyzeCidr
    \/ GetSubnetMaskFromPrefix
    \/ SubnetDivision
    \/ IpInRange
    \/ FindOverlaps
    \/ Supernet
    \/ AnalyzeMultipleRanges
    \/ IntToIp
    \/ IpToInt
    \/ Classify
    \/ GetUsableIps
    \/ GenerateIpList

Spec == Init /\ [][Next]_vars

---------------------------------------------------------------------------
(* Python objects *)

None == "None"

\* dict.get(key): None when the key is absent
Get(d, key) == IF key \in DOMAIN d THEN d[key] ELSE None

\* the identity given to a newly created object: one no live object has
NewId(h) == Min({id \in 1..(Cardinality(DOMAIN h) + 1) : id \notin DOMAIN h})

\* Identities carry no meaning.  After a call the objects still referenced
\* are kept and renumbered in the order they are reached: from the cache,
\* its keys taken in the order of `keys`, then from the references the
\* caller holds.
Collect(h, c, held, keys) ==
    LET renumbered(order) ==
            [heap |-> [k \in 1..Len(order) |-> h[order[k]]],
             cache |-> [x \in DOMAIN c |-> CHOOSE k \in 1..Len(order) : order[k] = c[x]],
             held |-> [i \in 1..Len(held) |->
                          CHOOSE k \in 1..Len(order) : order[k] = held[i]]]
        cached(present) ==
            renumbered(List([k \in 1..Len(present) |-> c[present[k]]])
                       \o SelectSeq(held, LAMBDA id : \A x \in DOMAIN c : c[x] # id))
    IN  cached(SelectSeq(keys, LAMBDA x : x \in DOMAIN c))

\* the objects a dict (or list) of references refers to
Refs(d) == {d[k] : k \in DOMAIN d}

---------------------------------------------------------------------------
(* geoip_analyzer.py: GeoIPAnalyzer *)

Meta(country, country_code, region, city, latitude, longitude, timezone, isp, organization, asn) ==
    [country |-> country, country_code |-> country_code, region |-> region,
     city |-> city, latitude |-> latitude, longitude |-> longitude,
     timezone |-> timezone, isp |-> isp, organization |-> organization,
     asn |-> asn]

_SAMPLE_DB == <<
    <<ip_to_int(Dotted(8, 8, 8, 0)).value, ip_to_int(Dotted(8, 8, 8, 255)).value,
      Meta("United States", "US", "California", "Mountain View", "37.386",
           "-122.0838", "America/Los_Angeles", "Google LLC", "Google", "15169")>>,
    <<ip_to_int(Dotted(1, 1, 1, 0)).value, ip_to_int(Dotted(1, 1, 1, 255)).value,
      Meta("Australia", "AU", "New South Wales", "Sydney", "-33.8591",
           "151.2002", "Australia/Sydney", "Cloudflare Inc.", "Cloudflare", "13335")>>,
    <<ip_to_int(Dotted(1, 1, 1, 128)).value, ip_to_int(Dotted(1, 1, 1, 191)).value,
      Meta("Singapore", "SG", "Singapore", "Singapore", "1.3521",
           "103.8198", "Asia/Singapore", "Cloudflare Inc.", "Cloudflare", "13335")>>,
    <<ip_to_int(Dotted(1, 1, 1, 192)).value, ip_to_int(Dotted(1, 1, 1, 255)).value,
      Meta("United Kingdom", "GB", "England", "London", "51.5074",
           "-0.1278", "Europe/London", "Cloudflare Inc.", "Cloudflare", "13335")>>,
    <<ip_to_int(Dotted(208, 67, 222, 0)).value, ip_to_int(Dotted(208, 67, 222, 255)).value,
      Meta("United States", "US", "California", "San Francisco", "37.7749",
           "-122.4194", "America/Los_Angeles", "Cisco Umbrella", "Cisco Systems", "8452")>>,
    <<ip_to_int(Dotted(9, 9, 9, 0)).value, ip_to_int(Dotted(9, 9, 9, 255)).value,
      Meta("United States", "US", "New York", "New York", "40.7128",
           "-74.006", "America/New_York", "IBM", "Quad9", "22652")>> >>

\* faulty variant: the scan keeps the last entry that contains the address
last_match(table, ip_int) ==
    LET pick(matches) == IF matches = {} THEN 0 ELSE Max(matches)
    IN  pick({k \in 1..Len(table) :
                Leq(table[k][1], ip_int) /\ Leq(ip_int, table[k][2])})

\* for start, end, meta in self.db: if start <= ip_int <= end: ... return
\* the index of the entry the scan stops at, 0 when it runs to the end
first_match(table, ip_int) ==
    LET pick(matches) == IF matches = {} THEN 0 ELSE Min(matches)
    IN  pick({k \in 1..Len(table) :
                Leq(table[k][1], ip_int) /\ Leq(ip_int, table[k][2])})

\* analyze past the cache check: the dict that is built for ip_address
geo_result(table, ip_address) ==
    LET found(k) ==
            IF k # 0 THEN [ip |-> ip_address] @@ table[k][3]
            ELSE [ip |-> ip_address, country |-> "Unknown", country_code |-> None,
                  region |-> None, city |-> None, latitude |-> None,
                  longitude |-> None, timezone |-> None, isp |-> "Unknown",
                  organization |-> None, asn |-> None]
        search(ip_int) ==
            IF ~ip_int.ok
            THEN [ip |-> ip_address, country |-> "Unknown", country_code |-> None,
                  error |-> "Invalid IP address"]
            ELSE found(first_match(table, ip_int.value))
    IN  search(ip_to_int(ip_address))

\* analyze on the analyzer state (h, c) = (heap, _cache): the state it leaves
\* and the object it returns.  A hit returns a copy of the cached object; a
\* miss stores the new object in the cache and returns that same object.
analyze(table, h, c, ip_address) ==
    LET hit(id) ==
            [heap |-> (id :> h[c[ip_address]]) @@ h, cache |-> c, result |-> id]
        miss(id) ==
            [heap |-> (id :> geo_result(table, ip_address)) @@ h,
             cache |-> (ip_address :> id) @@ c, result |-> id]
    IN  IF ip_address \in DOMAIN c THEN hit(NewId(h)) ELSE miss(NewId(h))

RECURSIVE batch_analyze(_, _, _, _)
batch_analyze(table, h, c, ips) ==
    LET rest(first, r) ==
            [heap |-> r.heap, cache |-> r.cache, result |-> <<first.result>> \o r.result]
        next(first) == rest(first, batch_analyze(table, first.heap, first.cache, Tail(ips)))
    IN  IF ips = <<>> THEN [heap |-> h, cache |-> c, result |-> <<>>]
        ELSE next(analyze(table, h, c, Head(ips)))

\* the great-circle distance is left uninterpreted: a term over the four
\* coordinates; float(None) raises TypeError, which is answered with -1.0
calculate_distance(geo1, geo2) ==
    LET haversine(lat1, lon1, lat2, lon2) ==
            IF None \in {lat1, lon1, lat2, lon2} THEN <<"-1.0">>
            ELSE <<"haversine", lat1, lon1, lat2, lon2>>
    IN  haversine(Get(geo1, "latitude"), Get(geo1, "longitude"),
                  Get(geo2, "latitude"), Get(geo2, "longitude"))

analyze_with_distance(table, h, c, ip_address, reference_ip) ==
    LET updated(result, r) ==
            [heap |-> [r.heap EXCEPT ![result] =
                          [distance_to_reference |->
                               calculate_distance(r.heap[result], r.heap[r.result]),
                           reference_ip |-> reference_ip] @@ @],
             cache |-> r.cache, result |-> result]
        reference(r) == updated(r.result, analyze(table, r.heap, r.cache, reference_ip))
    IN  reference(analyze(table, h, c, ip_address))

\* the dict country_code -> count is returned by value
RECURSIVE get_countries_distribution(_, _, _, _, _)
get_countries_distribution(table, h, c, ips, distribution) ==
    LET counted(r, country_code) ==
            get_countries_distribution(table, r.heap, r.cache, Tail(ips),
                (country_code :> ((IF country_code \in DOMAIN distribution
                                   THEN distribution[country_code] ELSE 0) + 1))
                    @@ distribution)
        next(r) == counted(r, r.heap[r.result].country_code)
    IN  IF ips = <<>> THEN [heap |-> h, cache |-> c, result |-> distribution]
        ELSE next(analyze(table, h, c, Head(ips)))

---------------------------------------------------------------------------
(* The GeoIP analyzer as a state machine: one analyzer object, built over  *)
(* the sample table or over a caller-supplied one, and a caller that holds *)
(* the result of its latest call                                           *)

\* a caller-supplied table has at most this many entries
MaxEntries == 2
\* a batch names at most this many addresses
MaxBatch == 2

\* entries of caller-supplied tables: 0.0.0.0-0.0.0.255 and, inside it, 0.0.0.0-0.0.0.15
CustomEntries ==
    {<<IntOf(0), IntOf(255),
       Meta("Wideland", "WL", "West", "Wide City", "10.5", "20.5", "Etc/UTC",
            "Wide ISP", "Wide Org", "64500")>>,
     <<IntOf(0), IntOf(15),
       Meta("Lowland", "LL", "South", "Low City", "-30.25", "40.75", "Etc/UTC",
            "Low ISP", "Low Org", "64501")>>}

GeoTables == {_SAMPLE_DB} \cup SeqUpTo(CustomEntries, MaxEntries)

\* the addresses asked for: inside one entry, inside two, malformed; and, of a
\* caller-supplied table, inside every entry and inside none
GeoQueries(table) ==
    IF table = _SAMPLE_DB
    THEN <<Dotted(8, 8, 8, 8), Dotted(1, 1, 1, 130), Dotted(999, 1, 1, 1)>>
    ELSE <<Dotted(0, 0, 0, 5), Dotted(0, 0, 1, 0)>>

\* GeoIPAnalyzer(db): self.db = db or _SAMPLE_DB, self._cache = {}
InitGeo ==
    /\ db \in GeoTables
    /\ geo_cache = <<>> /\ heap = <<>>
    /\ call = [op |-> "__init__"] /\ ret = Return(None)
    /\ prefix_table = <<>> /\ bgp_cache = <<>> /\ threads = <<>>
    /\ dns_cache = <<>> /\ stats = <<>> /\ pool = 0
    /\ whitelist = {} /\ blacklist = {} /\ history = <<>>

\* what every GeoIP operation leaves alone
GeoFrame == UNCHANGED <<db, prefix_table, bgp_cache, threads,
                        dns_cache, stats, pool, whitelist, blacklist, history>>

\* the state a call leaves behind, the caller holding the references `held`;
\* the call returns one object, a list of objects, or a value
GeoLeft(r, held, returns) ==
    \E left \in {Collect(r.heap, r.cache, held, GeoQueries(db))} :
        /\ geo_cache' = left.cache
        /\ heap' = left.heap
        /\ ret' = Return(IF returns = "value" THEN r.result
                         ELSE IF returns = "object" THEN left.held[1]
                         ELSE left.held)
        /\ GeoFrame

Analyze ==
    \E ip \in Refs(GeoQueries(db)) :
        /\ call' = [op |-> "analyze", ip |-> ip]
        /\ \E r \in {analyze(db, heap, geo_cache, ip)} : GeoLeft(r, <<r.result>>, "object")

BatchAnalyze ==
    \E ips \in SeqUpTo(Refs(GeoQueries(db)), MaxBatch) :
        /\ call' = [op |-> "batch_analyze", ips |-> ips]
        /\ \E r \in {batch_analyze(db, heap, geo_cache, ips)} : GeoLeft(r, r.result, "list")

AnalyzeWithDistance ==
    \E ip, reference_ip \in Refs(GeoQueries(db)) :
        /\ call' = [op |-> "analyze_with_distance", ip |-> ip, reference_ip |-> reference_ip]
        /\ \E r \in {analyze_with_distance(db, heap, geo_cache, ip, reference_ip)} :
                GeoLeft(r, <<r.result>>, "object")

GetCountriesDistribution ==
    \E ips \in SeqUpTo(Refs(GeoQueries(db)), MaxBatch) :
        /\ call' = [op |-> "get_countries_distribution", ips |-> ips]
        /\ \E r \in {get_countries_distribution(db, heap, geo_cache, ips, <<>>)} :
                GeoLeft(r, <<>>, "value")

\* self._cache.clear()
ClearCache ==
    /\ call' = [op |-> "clear_cache"]
    /\ ret' = Return(None)
    /\ geo_cache' = <<>>
    /\ heap' = <<>>
    /\ GeoFrame

NextGeo ==
    \/ Analyze
    \/ BatchAnalyze
    \/ AnalyzeWithDistance
    \/ GetCountriesDistribution
    \/ ClearCache

SpecGeo == InitGeo /\ [][NextGeo]_vars

---------------------------------------------------------------------------
(* bgp_analyzer.py: BGPAnalyzer *)

\* None in a field that otherwise holds text
NoText == <<None>>

\* each entry: (start_int, end_int, asn, as_name, origin, community)
_SAMPLE_PREFIXES == <<
    <<ip_to_int(Dotted(8, 8, 8, 0)).value, ip_to_int(Dotted(8, 8, 8, 255)).value,
      "15169", "GOOGLE", "IGP", "google:65000">>,
    <<ip_to_int(Dotted(8, 8, 4, 0)).value, ip_to_int(Dotted(8, 8, 4, 255)).value,
      "15169", "GOOGLE", "IGP", "google:65000">>,
    <<ip_to_int(Dotted(1, 1, 1, 0)).value, ip_to_int(Dotted(1, 1, 1, 255)).value,
      "13335", "CLOUDFLARE", "IGP", "cloudflare:1">>,
    <<ip_to_int(Dotted(1, 0, 0, 0)).value, ip_to_int(Dotted(1, 0, 0, 255)).value,
      "13335", "CLOUDFLARE", "IGP", "cloudflare:1">>,
    <<ip_to_int(Dotted(208, 67, 222, 0)).value, ip_to_int(Dotted(208, 67, 222, 255)).value,
      "8452", "OPENDNS", "IGP", "opendns:65000">>,
    <<ip_to_int(Dotted(208, 67, 220, 0)).value, ip_to_int(Dotted(208, 67, 220, 255)).value,
      "8452", "OPENDNS", "IGP", "opendns:65000">>,
    <<ip_to_int(Dotted(9, 9, 9, 0)).value, ip_to_int(Dotted(9, 9, 9, 255)).value,
      "22652", "QUAD9", "IGP", "quad9:65000">>,
    <<ip_to_int(Dotted(209, 244, 0, 0)).value, ip_to_int(Dotted(209, 244, 0, 255)).value,
      "1", "LEVEL3", "IGP", "level3:65001">>,
    <<ip_to_int(Dotted(4, 0, 0, 0)).value, ip_to_int(Dotted(4, 0, 0, 255)).value,
      "701", "VERIZON", "IGP", "verizon:65001">> >>

AsInfo(name, country, description) ==
    [name |-> name, country |-> country, description |-> description]

_AS_INFO_DB ==
    [asn \in {"15169", "13335", "8452", "22652", "1", "701", "3356", "2906", "16509"} |->
        CASE asn = "15169" -> AsInfo("GOOGLE", "US", "Google Inc.")
          [] asn = "13335" -> AsInfo("CLOUDFLARE", "US", "Cloudflare Inc.")
          [] asn = "8452" -> AsInfo("OPENDNS", "US", "Cisco Umbrella")
          [] asn = "22652" -> AsInfo("QUAD9", "US", "Quad9 Foundation")
          [] asn = "1" -> AsInfo("LEVEL3", "US", "Level 3 Communications")
          [] asn = "701" -> AsInfo("VERIZON", "US", "Verizon Communications")
          [] asn = "3356" -> AsInfo("LEASEWEB", "NL", "LeaseWeb Global B.V.")
          [] asn = "2906" -> AsInfo("NETFLIX", "US", "Netflix Inc.")
          [] asn = "16509" -> AsInfo("AMAZON", "US", "Amazon.com Inc.")]

\* the loop over the table from entry k on, best being the index of
\* best_match so far (0 for None):
\*   if start <= ip_int <= end:
\*       prefix_len = (end - start).bit_length()
\*       if prefix_len > best_prefix_len: best_match = entry
RECURSIVE best_match(_, _, _, _, _)
best_match(table, ip_int, k, best, best_prefix_len) ==
    LET better(prefix_len) ==
            IF prefix_len > best_prefix_len
            THEN best_match(table, ip_int, k + 1, k, prefix_len)
            ELSE best_match(table, ip_int, k + 1, best, best_prefix_len)
    IN  IF k > Len(table) THEN best
        ELSE IF Leq(table[k][1], ip_int) /\ Leq(ip_int, table[k][2])
        THEN better(bit_length(Sub(table[k][2], table[k][1])))
        ELSE best_match(table, ip_int, k + 1, best, best_prefix_len)

\* analyze_ip past the cache check: the dict that is built for ip_address
bgp_result(table, ip_address) ==
    LET matched(e) ==
            [ip |-> ip_address, asn |-> e[3], as_name |-> e[4],
             route_prefix |-> int_to_ip(e[1]) \o <<"/">>
                                \o Dec(32 - bit_length(Sub(e[2], e[1]))),
             origin |-> e[5], community |-> e[6], path |-> <<e[3]>>,
             country |-> Get(IF e[3] \in DOMAIN _AS_INFO_DB THEN _AS_INFO_DB[e[3]]
                             ELSE <<>>, "country"),
             last_update |-> "N/A"]
        found(best) ==
            IF best # 0 THEN matched(table[best])
            ELSE [ip |-> ip_address, asn |-> None, as_name |-> "Unknown",
                  route_prefix |-> NoText, origin |-> None, community |-> None,
                  path |-> <<>>, country |-> None, last_update |-> "N/A"]
        search(ip_int) ==
            IF ~ip_int.ok
            THEN [ip |-> ip_address, asn |-> None, as_name |-> None,
                  route_prefix |-> NoText, origin |-> None, community |-> None,
                  path |-> <<>>, country |-> None, error |-> "Invalid IP address"]
            ELSE found(best_match(table, ip_int.value, 1, 0, -1))
    IN  search(ip_to_int(ip_address))

\* analyze_ip on the analyzer state (h, c) = (heap, _cache)
analyze_ip(table, h, c, ip_address) ==
    LET hit(id) ==
            [heap |-> (id :> h[c[ip_address]]) @@ h, cache |-> c, result |-> id]
        miss(id) ==
            [heap |-> (id :> bgp_result(table, ip_address)) @@ h,
             cache |-> (ip_address :> id) @@ c, result |-> id]
    IN  IF ip_address \in DOMAIN c THEN hit(NewId(h)) ELSE miss(NewId(h))

\* find_origin: the loop returns at the first entry, in table order, that
\* holds start_int; 0 when none does
RECURSIVE origin_match(_, _, _)
origin_match(table, start_int, k) ==
    IF k > Len(table) THEN 0
    ELSE IF Leq(table[k][1], start_int) /\ Leq(start_int, table[k][2]) THEN k
    ELSE origin_match(table, start_int, k + 1)

\* find_origin: a new dict; every exception inside is turned into an error dict
find_origin(table, route_prefix) ==
    LET failed == [route_prefix |-> route_prefix, error |-> "str(e)", found |-> FALSE]
        entry(k) ==
            IF k # 0
            THEN [route_prefix |-> route_prefix, asn |-> table[k][3], as_name |-> table[k][4],
                  origin |-> table[k][5], community |-> table[k][6], found |-> TRUE]
            ELSE [route_prefix |-> route_prefix, asn |-> None, as_name |-> None,
                  origin |-> None, community |-> None, found |-> FALSE]
        search(start_int) ==
            IF ~start_int.ok THEN failed
            ELSE entry(origin_match(table, start_int.value, 1))
        split(parts) ==
            IF Len(parts) # 2 THEN failed
            ELSE IF ~py_int(parts[2]).ok THEN failed
            ELSE search(ip_to_int(parts[1]))
    IN  IF \E i \in 1..Len(route_prefix) : route_prefix[i] = "/"
        THEN split(Split(route_prefix, "/"))
        ELSE search(ip_to_int(route_prefix))

\* get_prefixes_for_asn: one text per entry of the ASN, from entry k on
RECURSIVE get_prefixes_for_asn(_, _, _)
get_prefixes_for_asn(table, asn, k) ==
    IF k > Len(table) THEN <<>>
    ELSE IF table[k][3] = asn
    THEN <<int_to_ip(table[k][1]) \o <<"/">>
             \o Dec(32 - bit_length(Sub(table[k][2], table[k][1])))>>
         \o get_prefixes_for_asn(table, asn, k + 1)
    ELSE get_prefixes_for_asn(table, asn, k + 1)

---------------------------------------------------------------------------
(* The BGP analyzer as a state machine *)

\* entries of caller-supplied tables: 0.0.0.0-0.0.0.255 and, inside it,
\* 0.0.0.0-0.0.0.15 announced by two systems, one of which also announces
\* the adjacent 0.0.0.16-0.0.0.31
BgpEntries ==
    {<<IntOf(0), IntOf(255), "64500", "WIDE", "IGP", "wide:1">>,
     <<IntOf(0), IntOf(15), "64501", "NARROW", "IGP", "narrow:1">>,
     <<IntOf(0), IntOf(15), "64502", "TWIN", "EGP", "twin:1">>,
     <<IntOf(16), IntOf(31), "64501", "NARROW", "IGP", "narrow:1">>}

\* two more caller-supplied tables: two entries of one range under a wider
\* one, and an entry whose range 0.0.0.10-0.0.0.20 is no CIDR block
MoreTables ==
    {<<<<IntOf(0), IntOf(15), "64501", "NARROW", "IGP", "narrow:1">>,
       <<IntOf(0), IntOf(15), "64502", "TWIN", "EGP", "twin:1">>,
       <<IntOf(0), IntOf(255), "64500", "WIDE", "IGP", "wide:1">>>>,
     <<<<IntOf(10), IntOf(20), "64503", "ODD", "IGP", "odd:1">>>>}

BgpTables == {_SAMPLE_PREFIXES} \cup SeqUpTo(BgpEntries, MaxEntries) \cup MoreTables

BgpQueries(table) ==
    IF table = _SAMPLE_PREFIXES
    THEN <<Dotted(8, 8, 8, 8), Dotted(10, 0, 0, 1), Dotted(999, 1, 1, 1)>>
    ELSE <<Dotted(0, 0, 0, 5), Dotted(0, 0, 0, 20), Dotted(0, 0, 1, 0)>>

\* BGPAnalyzer(prefix_table): self.prefix_table = prefix_table, or else
\* _SAMPLE_PREFIXES when it is None; self.as_info_db = _AS_INFO_DB, self._cache = {}
InitBgp ==
    /\ prefix_table \in BgpTables
    /\ bgp_cache = <<>> /\ heap = <<>>
    /\ call = [op |-> "__init__"] /\ ret = Return(None)
    /\ db = <<>> /\ geo_cache = <<>> /\ threads = <<>>
    /\ dns_cache = <<>> /\ stats = <<>> /\ pool = 0
    /\ whitelist = {} /\ blacklist = {} /\ history = <<>>

BgpFrame == UNCHANGED <<db, prefix_table, geo_cache, threads,
                        dns_cache, stats, pool, whitelist, blacklist, history>>

AnalyzeIp ==
    \E ip \in Refs(BgpQueries(prefix_table)) :
        /\ call' = [op |-> "analyze_ip", ip |-> ip]
        /\ \E r \in {analyze_ip(prefix_table, heap, bgp_cache, ip)} :
            \E left \in {Collect(r.heap, r.cache, <<r.result>>, BgpQueries(prefix_table))} :
                /\ bgp_cache' = left.cache
                /\ heap' = left.heap
                /\ ret' = Return(left.held[1])
        /\ BgpFrame

\* self._cache.clear()
ClearBgpCache ==
    /\ call' = [op |-> "clear_cache"]
    /\ ret' = Return(None)
    /\ bgp_cache' = <<>>
    /\ heap' = <<>>
    /\ BgpFrame

\* route_prefix arguments: the addresses, bare and with a prefix length, and
\* texts that do not parse
OriginQueries(table) ==
    Refs(BgpQueries(table))
    \cup {ip \o <<"/", "2", "4">> : ip \in Refs(BgpQueries(table))}
    \cup {<<"1", "/", "2", "/", "3">>, Dotted(8, 8, 8, 8) \o <<"/", "x">>}

FindOrigin ==
    \E route_prefix \in OriginQueries(prefix_table) :
        /\ call' = [op |-> "find_origin", route_prefix |-> route_prefix]
        /\ ret' = Return(find_origin(prefix_table, route_prefix))
        /\ UNCHANGED <<bgp_cache, heap>>
        /\ BgpFrame

\* asn arguments: those of the table and one it does not hold
AsnQueries(table) == {table[k][3] : k \in 1..Len(table)} \cup {"65000"}

GetPrefixesForAsn ==
    \E asn \in AsnQueries(prefix_table) :
        /\ call' = [op |-> "get_prefixes_for_asn", asn |-> asn]
        /\ ret' = Return(get_prefixes_for_asn(prefix_table, asn, 1))
        /\ UNCHANGED <<bgp_cache, heap>>
        /\ BgpFrame

NextBgp ==
    \/ AnalyzeIp
    \/ ClearBgpCache
    \/ FindOrigin
    \/ GetPrefixesForAsn

SpecBgp == InitBgp /\ [][NextBgp]_vars

---------------------------------------------------------------------------
(* Several threads inside GeoIPAnalyzer.analyze and clear_cache on one     *)
(* analyzer, no lock held.  BGPAnalyzer.analyze_ip has the same shape.     *)
(* A thread may be preempted between any two of                            *)
(*     if ip_address in self._cache:            -- CheckCache              *)
(*         return self._cache[ip_address].copy() -- ReadCache              *)
(*     ...                                                                 *)
(*     self._cache[ip_address] = result          -- StoreResult            *)
(* each of which, like dict.clear(), is one indivisible dict operation.    *)

\* threads calling analyze
MaxThreads == 2

Threads == 1..MaxThreads

Idle == [pc |-> "idle", ip_address |-> <<>>, result |-> 0]

InitRace ==
    /\ db \in GeoTables
    /\ geo_cache = <<>> /\ heap = <<>>
    /\ threads = [t \in Threads |-> Idle]
    /\ call = [op |-> "__init__"] /\ ret = Return(None)
    /\ prefix_table = <<>> /\ bgp_cache = <<>>
    /\ dns_cache = <<>> /\ stats = <<>> /\ pool = 0
    /\ whitelist = {} /\ blacklist = {} /\ history = <<>>

RaceFrame == UNCHANGED <<ret, db, prefix_table, bgp_cache,
                        dns_cache, stats, pool, whitelist, blacklist, history>>

\* the objects that threads hold as their result, in thread order
HeldBy(ts) == SelectSeq([t \in Threads |-> ts[t].result], LAMBDA id : id # 0)

\* the state a step leaves behind: heap h, cache c, thread states ts
RaceLeft(h, c, ts) ==
    \E left \in {Collect(h, c, HeldBy(ts), GeoQueries(db))} :
        /\ geo_cache' = left.cache
        /\ heap' = left.heap
        /\ threads' = [t \in Threads |->
                IF ts[t].result = 0 THEN ts[t]
                ELSE [ts[t] EXCEPT !.result =
                        left.held[Cardinality({u \in 1..t : ts[u].result # 0})]]]

\* thread t enters analyze(ip), dropping the result of its previous call
CallAnalyze(t) ==
    /\ threads[t].pc \in {"idle", "returned", "raised"}
    /\ \E ip \in Refs(GeoQueries(db)) :
        /\ call' = [op |-> "analyze", ip |-> ip, thread |-> t]
        /\ RaceLeft(heap, geo_cache,
                    [threads EXCEPT ![t] = [pc |-> "check", ip_address |-> ip, result |-> 0]])
    /\ RaceFrame

\* if ip_address in self._cache
CheckCache(t) ==
    /\ threads[t].pc = "check"
    /\ threads' = [threads EXCEPT ![t].pc =
            IF threads[t].ip_address \in DOMAIN geo_cache THEN "read" ELSE "store"]
    /\ UNCHANGED <<call, geo_cache, heap>>
    /\ RaceFrame

\* return self._cache[ip_address].copy(); KeyError when the key is gone
ReadCache(t) ==
    /\ threads[t].pc = "read"
    /\ IF threads[t].ip_address \in DOMAIN geo_cache
       THEN \E id \in {NewId(heap)} :
                RaceLeft((id :> heap[geo_cache[threads[t].ip_address]]) @@ heap,
                         geo_cache,
                         [threads EXCEPT ![t].pc = "returned", ![t].result = id])
       ELSE RaceLeft(heap, geo_cache, [threads EXCEPT ![t].pc = "raised"])
    /\ UNCHANGED call
    /\ RaceFrame

\* result = ...; self._cache[ip_address] = result; return result
StoreResult(t) ==
    /\ threads[t].pc = "store"
    /\ \E id \in {NewId(heap)} :
            RaceLeft((id :> geo_result(db, threads[t].ip_address)) @@ heap,
                     (threads[t].ip_address :> id) @@ geo_cache,
                     [threads EXCEPT ![t].pc = "returned", ![t].result = id])
    /\ UNCHANGED call
    /\ RaceFrame

\* another thread runs clear_cache: self._cache.clear()
ClearWhileRunning ==
    /\ call' = [op |-> "clear_cache"]
    /\ RaceLeft(heap, <<>>, threads)
    /\ RaceFrame

NextRace ==
    \/ \E t \in Threads : CallAnalyze(t)
    \/ \E t \in Threads : CheckCache(t)
    \/ \E t \in Threads : ReadCache(t)
    \/ \E t \in Threads : StoreResult(t)
    \/ ClearWhileRunning

SpecRace == InitRace /\ [][NextRace]_vars

---------------------------------------------------------------------------
(* ThreatIntelligence: whitelist, blacklist, the in-memory threat database *)
(* and the history of analyses.  The last_seen time stamp of a record is   *)
(* left out: no operation modelled here reads it.                          *)

\* records kept in _history
MaxHistory == 1

\* _initialize_threat_db
threat_db ==
    (Dotted(192, 0, 2, 1) :>
        [threat_type |-> "botnet", severity |-> 95, details |-> "Known botnet C&C"])
    @@ (Dotted(192, 0, 2, 2) :>
        [threat_type |-> "malware", severity |-> 90, details |-> "Malware distribution"])
    @@ (Dotted(198, 51, 100, 1) :>
        [threat_type |-> "phishing", severity |-> 85, details |-> "Phishing hosting"])
    @@ (Dotted(203, 0, 113, 1) :>
        [threat_type |-> "scanner", severity |-> 60, details |-> "Port scanner detected"])

\* addresses listed, unlisted and analyzed
ThreatIps ==
    {Dotted(8, 8, 8, 8), Dotted(192, 0, 2, 1), Dotted(198, 51, 100, 1), Dotted(203, 0, 113, 1)}

\* analyze_threat with the blacklist consulted before the whitelist
analyze_threat_blacklist_first(wl, bl, ip_address) ==
    IF ip_address \in wl /\ ip_address \notin bl
    THEN [ip |-> ip_address, threat_level |-> "UNKNOWN", risk_score |-> 0,
          threat_types |-> <<>>, malware |-> <<>>, exploits |-> <<>>,
          sources |-> <<"whitelist">>, details |-> "IP is on whitelist",
          whitelisted |-> TRUE]
    ELSE [ip |-> ip_address, threat_level |-> "MEDIUM", risk_score |-> 50,
          threat_types |-> <<"blacklist">>, malware |-> <<>>, exploits |-> <<>>,
          sources |-> <<"local-blacklist">>, details |-> "No known threats",
          whitelisted |-> FALSE]

\* the record analyze_threat builds, given the two lists
analyze_threat(wl, bl, ip_address) ==
    IF ip_address \in wl
    THEN [ip |-> ip_address, threat_level |-> "UNKNOWN", risk_score |-> 0,
          threat_types |-> <<>>, malware |-> <<>>, exploits |-> <<>>,
          sources |-> <<"whitelist">>, details |-> "IP is on whitelist",
          whitelisted |-> TRUE]
    ELSE LET is_blacklisted == ip_address \in bl
             known == ip_address \in DOMAIN threat_db
             listed_score == IF is_blacklisted THEN 50 ELSE 0
             score == IF known /\ threat_db[ip_address].severity > listed_score
                      THEN threat_db[ip_address].severity ELSE listed_score
         IN [ip |-> ip_address,
             threat_level |->
                 IF score >= 90 THEN "CRITICAL"
                 ELSE IF score >= 70 THEN "HIGH"
                 ELSE IF score >= 50 THEN "MEDIUM"
                 ELSE IF score >= 20 THEN "LOW"
                 ELSE "UNKNOWN",
             risk_score |-> IF score >= 20 THEN score ELSE 5,
             threat_types |->
                 (IF is_blacklisted THEN <<"blacklist">> ELSE <<>>)
                 \o (IF known THEN <<threat_db[ip_address].threat_type>> ELSE <<>>),
             malware |-> <<>>,
             exploits |-> <<>>,
             sources |->
                 IF ~is_blacklisted /\ ~known THEN <<"baseline">>
                 ELSE (IF is_blacklisted THEN <<"local-blacklist">> ELSE <<>>)
                      \o (IF known THEN <<"threat-database">> ELSE <<>>),
             details |-> IF known THEN threat_db[ip_address].details
                         ELSE "No known threats",
             whitelisted |-> FALSE]

\* ThreatIntelligence(): both lists are read from their files (empty when
\* the file is missing), the history starts empty
InitThreat ==
    /\ whitelist \in SUBSET ThreatIps
    /\ blacklist \in SUBSET ThreatIps
    /\ history = <<>>
    /\ call = [op |-> "__init__"] /\ ret = Return(None)
    /\ db = <<>> /\ prefix_table = <<>> /\ geo_cache = <<>> /\ bgp_cache = <<>>
    /\ heap = <<>> /\ threads = <<>>
    /\ dns_cache = <<>> /\ stats = <<>> /\ pool = 0

\* records in the history, over all addresses
HistoryRecords(h) == Cardinality({<<a, i>> \in (DOMAIN h) \X (1..MaxHistory + 1) : i <= Len(h[a])})

\* analyze_threat(ip_address): the record is appended to the history and returned
AnalyzeThreat ==
    /\ HistoryRecords(history) < MaxHistory
    /\ \E ip_address \in ThreatIps :
        \E record \in {analyze_threat(whitelist, blacklist, ip_address)} :
            /\ call' = [op |-> "analyze_threat", ip |-> ip_address]
            /\ history' = (ip_address :>
                    (IF ip_address \in DOMAIN history THEN history[ip_address] ELSE <<>>)
                    \o <<record>>) @@ history
            /\ ret' = Return(record)
    /\ UNCHANGED <<whitelist, blacklist, db, prefix_table, geo_cache, bgp_cache,
                   heap, threads, dns_cache, stats, pool>>

\* what the four list operations leave alone
ListFrame ==
    UNCHANGED <<history, db, prefix_table, geo_cache, bgp_cache,
                heap, threads, dns_cache, stats, pool>>

\* add_to_blacklist(ip_address): self.blacklist.add(ip_address)
AddToBlacklist ==
    /\ \E ip_address \in ThreatIps :
        /\ call' = [op |-> "add_to_blacklist", ip |-> ip_address]
        /\ blacklist' = blacklist \cup {ip_address}
    /\ ret' = Return(None)
    /\ UNCHANGED whitelist
    /\ ListFrame

\* remove_from_blacklist(ip_address): self.blacklist.discard(ip_address)
RemoveFromBlacklist ==
    /\ \E ip_address \in ThreatIps :
        /\ call' = [op |-> "remove_from_blacklist", ip |-> ip_address]
        /\ blacklist' = blacklist \ {ip_address}
    /\ ret' = Return(None)
    /\ UNCHANGED whitelist
    /\ ListFrame

\* add_to_whitelist(ip_address): self.whitelist.add(ip_address)
AddToWhitelist ==
    /\ \E ip_address \in ThreatIps :
        /\ call' = [op |-> "add_to_whitelist", ip |-> ip_address]
        /\ whitelist' = whitelist \cup {ip_address}
    /\ ret' = Return(None)
    /\ UNCHANGED blacklist
    /\ ListFrame

\* remove_from_whitelist(ip_address): self.whitelist.discard(ip_address)
RemoveFromWhitelist ==
    /\ \E ip_address \in ThreatIps :
        /\ call' = [op |-> "remove_from_whitelist", ip |-> ip_address]
        /\ whitelist' = whitelist \ {ip_address}
    /\ ret' = Return(None)
    /\ UNCHANGED blacklist
    /\ ListFrame

NextThreat ==
    \/ AnalyzeThreat
    \/ AddToBlacklist
    \/ RemoveFromBlacklist
    \/ AddToWhitelist
    \/ RemoveFromWhitelist

SpecThreat == InitThreat /\ [][NextThreat]_vars

---------------------------------------------------------------------------
(* DNSBulkProcessor.forward_lookup_batch: one task per hostname, run by    *)
(* the worker threads of a ThreadPoolExecutor, no lock held.  Each task    *)
(* runs _forward, and a worker may be preempted between any two of         *)
(*     if cache_key in self._cache:              -- ForwardCheck           *)
(*     socket.getaddrinfo(...);                                            *)
(*     self._cache[cache_key] = result           -- ForwardResolve         *)
(*     self._stats[k] += 1, which reads the item -- StatsLoad              *)
(*                     and then writes the sum   -- StatsStore             *)
(* The resolver's answer is an input: an address list or a failure.        *)

\* lookups counted by one processor
MaxLookups == 4

Hostnames == {"a.example", "b.example"}

\* what socket.getaddrinfo yields: addresses, or an exception
DnsAnswers ==
    {[ips |-> <<"192.0.2.10">>, error |-> None],
     [ips |-> <<>>, error |-> "timeout"]}

\* DNSBulkProcessor(threads): self.threads = max(1, min(int(threads), 32)),
\* empty cache, counters at zero
InitDns ==
    /\ pool \in 1..MaxThreads
    /\ dns_cache = <<>>
    /\ stats = [forward |-> 0, reverse |-> 0, cached |-> 0, errors |-> 0]
    /\ threads = <<>>
    /\ call = [op |-> "__init__"] /\ ret = Return(None)
    /\ db = <<>> /\ prefix_table = <<>> /\ geo_cache = <<>> /\ bgp_cache = <<>>
    /\ heap = <<>>
    /\ whitelist = {} /\ blacklist = {} /\ history = <<>>

\* forward_lookup_batch(hostnames): every hostname is submitted to the pool
ForwardLookupBatch ==
    /\ ret.ok
    /\ \E hostnames \in SeqUpTo(Hostnames, MaxBatch) :
        /\ stats.forward + stats.cached + stats.errors + Len(hostnames) <= MaxLookups
        /\ call' = [op |-> "forward_lookup_batch", hostnames |-> hostnames, before |-> stats]
        /\ threads' = [t \in DOMAIN hostnames |->
                [pc |-> "queued", hostname |-> hostnames[t], counter |-> "",
                 seen |-> 0, result |-> <<>>]]
    /\ ret' = Pending
    /\ UNCHANGED <<dns_cache, stats, pool, db, prefix_table, geo_cache, bgp_cache,
                   heap, whitelist, blacklist, history>>

\* a free worker takes the next task: if cache_key in self._cache
ForwardCheck(t) ==
    /\ threads[t].pc = "queued"
    /\ \A u \in 1..(t - 1) : threads[u].pc # "queued"
    /\ Cardinality({u \in DOMAIN threads : threads[u].pc \notin {"queued", "done"}}) < pool
    /\ threads' = [threads EXCEPT ![t] =
            IF <<"forward", threads[t].hostname>> \in DOMAIN dns_cache
            THEN [@ EXCEPT !.pc = "load", !.counter = "cached"]
            ELSE [@ EXCEPT !.pc = "resolve"]]
    /\ UNCHANGED <<call, ret, dns_cache, stats, pool, db, prefix_table, geo_cache,
                   bgp_cache, heap, whitelist, blacklist, history>>

\* infos = socket.getaddrinfo(hostname, None); self._cache[cache_key] = result
ForwardResolve(t) ==
    /\ threads[t].pc = "resolve"
    /\ \E answer \in DnsAnswers :
        \E result \in {[hostname |-> threads[t].hostname, ips |-> answer.ips,
                        error |-> answer.error]} :
            /\ dns_cache' = (<<"forward", threads[t].hostname>> :> result) @@ dns_cache
            /\ threads' = [threads EXCEPT ![t] =
                    [@ EXCEPT !.pc = "load", !.result = <<result>>,
                              !.counter = IF answer.error = None THEN "forward" ELSE "errors"]]
    /\ UNCHANGED <<call, ret, stats, pool, db, prefix_table, geo_cache,
                   bgp_cache, heap, whitelist, blacklist, history>>

\* self._stats[k] += 1: the item is read
StatsLoad(t) ==
    /\ threads[t].pc = "load"
    /\ threads' = [threads EXCEPT ![t] =
            [@ EXCEPT !.pc = "store", !.seen = stats[threads[t].counter]]]
    /\ UNCHANGED <<call, ret, dns_cache, stats, pool, db, prefix_table, geo_cache,
                   bgp_cache, heap, whitelist, blacklist, history>>

\* self._stats[k] += 1: the sum is written; return the result (a copy of the
\* cache's on a hit)
StatsStore(t) ==
    /\ threads[t].pc = "store"
    /\ stats' = [stats EXCEPT ![threads[t].counter] = threads[t].seen + 1]
    /\ threads' = [threads EXCEPT ![t] =
            [@ EXCEPT !.pc = "done",
                      !.result = IF threads[t].counter = "cached"
                                 THEN <<dns_cache[<<"forward", threads[t].hostname>>]>>
                                 ELSE @]]
    /\ UNCHANGED <<call, ret, dns_cache, pool, db, prefix_table, geo_cache,
                   bgp_cache, heap, whitelist, blacklist, history>>

\* every future has completed: results[result['hostname']] = result, in the
\* order of completion; return results
BatchReturn ==
    /\ ret = Pending
    /\ \A t \in DOMAIN threads : threads[t].pc = "done"
    /\ \E results \in [{threads[t].hostname : t \in DOMAIN threads} -> {threads[t].result[1] : t \in DOMAIN threads}] :
        /\ \A h \in DOMAIN results : results[h].hostname = h
        /\ ret' = Return(results)
    /\ threads' = <<>>
    /\ UNCHANGED <<call, dns_cache, stats, pool, db, prefix_table, geo_cache,
                   bgp_cache, heap, whitelist, blacklist, history>>

NextDns ==
    \/ ForwardLookupBatch
    \/ \E t \in DOMAIN threads : ForwardCheck(t)
    \/ \E t \in DOMAIN threads : ForwardResolve(t)
    \/ \E t \in DOMAIN threads : StatsLoad(t)
    \/ \E t \in DOMAIN threads : StatsStore(t)
    \/ BatchReturn

SpecDns == InitDns /\ [][NextDns]_vars

---------------------------------------------------------------------------
(* What the claims say about an address text, read off the text itself:    *)
(* four dot-separated decimal octets, and a decimal prefix length          *)

WellFormedIp(t) ==
    LET g == Split(t, ".")
    IN  /\ Len(g) = 4
        /\ \A k \in 1..4 : Len(g[k]) \in 1..3 /\ AllDigits(g[k]) /\ DecVal(g[k]) <= 255

WellFormedCidr(t) ==
    LET f == Split(t, "/")
    IN  /\ Len(f) = 2
        /\ WellFormedIp(f[1])
        /\ Len(f[2]) \in 1..2 /\ AllDigits(f[2]) /\ DecVal(f[2]) <= 32

\* the address value a dotted quad denotes, its octets being big-endian bytes
AddrOf(t) ==
    LET g == Split(t, ".")
    IN  UNION {Shl(IntOf(DecVal(g[k])), 8 * (4 - k)) : k \in 1..4}

BlockAddr(t) == AddrOf(Split(t, "/")[1])
BlockPrefix(t) == DecVal(Split(t, "/")[2])

\* p leading one-bits followed by 32 - p zero-bits
LeadingOnes(p) == {i \in 0..31 : i >= 32 - p}
\* the first and the last address of the block a/p
NetworkOf(a, p) == a \cap LeadingOnes(p)
BroadcastOf(a, p) == NetworkOf(a, p) \cup (xFFFFFFFF \ LeadingOnes(p))
Done == ret # Pending

\* the CIDR texts a call passes
CidrArgs ==
    IF call.op \in {"parse_cidr", "get_ip_range", "analyze_cidr", "subnet_division", "ip_in_range",
                    "get_usable_ips", "generate_ip_list"}
    THEN {call.cidr}
    ELSE IF call.op = "find_overlaps" THEN {call.cidr1, call.cidr2}
    ELSE IF call.op \in {"supernet", "analyze_multiple_ranges"}
    THEN {call.cidrs[k] : k \in 1..Len(call.cidrs)}
    ELSE {}

---------------------------------------------------------------------------
(* C3: every operation that takes CIDR text raises when the address part   *)
(* is no dotted quad or the prefix part is no integer in 0..32; none       *)
(* returns a result for such a text.                                       *)
C3_MalformedCidrRaises ==
    (Done /\ \E t \in CidrArgs : ~WellFormedCidr(t)) => ~ret.ok

---------------------------------------------------------------------------
(* C7: for a valid block a/p and p < n <= 32, subnet_division returns      *)
(* 2^(n-p) blocks of prefix n, in ascending order, 2^(32-n) apart, the     *)
(* first at the network address of a/p; the blocks are pairwise disjoint   *)
(* and their union is exactly the range of a/p.                            *)
C7_Case ==
    /\ call.op = "subnet_division" /\ Done
    /\ WellFormedCidr(call.cidr)
    /\ BlockPrefix(call.cidr) < call.new_prefix /\ call.new_prefix <= 32

C7_SubnetDivisionPartitions ==
    C7_Case =>
        /\ ret.ok
        /\ LET a == BlockAddr(call.cidr)
               p == BlockPrefix(call.cidr)
               n == call.new_prefix
               subs == ret.value
               first == List([i \in 1..Len(subs) |-> BlockAddr(subs[i])])
               last == List([i \in 1..Len(subs) |-> BroadcastOf(first[i], n)])
           IN  /\ Len(subs) = 2 ^ (n - p)
               /\ \A i \in 1..Len(subs) :
                    /\ WellFormedCidr(subs[i]) /\ BlockPrefix(subs[i]) = n
                    /\ first[i] = NetworkOf(first[i], n)
               /\ first[1] = NetworkOf(a, p)
               /\ \A i \in 1..(Len(subs) - 1) :
                    /\ first[i + 1] = Add(first[i], {32 - n})
                    /\ first[i + 1] = Add(last[i], IntOf(1))
               /\ \A i, j \in 1..Len(subs) : i < j => Lt(last[i], first[j])
               /\ last[Len(subs)] = BroadcastOf(a, p)

C7_Witness ==
    /\ C7_Case /\ ret.ok
    /\ Len(ret.value) = 2 ^ MaxSplitBits
    /\ BlockAddr(call.cidr) # NetworkOf(BlockAddr(call.cidr), BlockPrefix(call.cidr))

---------------------------------------------------------------------------
(* C8: for two or more valid blocks, supernet returns the smallest block   *)
(* containing them all: its prefix is at most the smallest input prefix,   *)
(* every input block lies inside it, and no block with a longer prefix     *)
(* contains them all.                                                      *)
C8_Case ==
    /\ call.op = "supernet" /\ Done
    /\ Len(call.cidrs) >= 2
    /\ \A k \in 1..Len(call.cidrs) : WellFormedCidr(call.cidrs[k])

C8_SupernetIsSmallest ==
    C8_Case =>
        /\ ret.ok
        /\ WellFormedCidr(ret.value)
        /\ LET n == Len(call.cidrs)
               q == BlockPrefix(ret.value)
               addr == List([k \in 1..n |-> BlockAddr(call.cidrs[k])])
               prefix == List([k \in 1..n |-> BlockPrefix(call.cidrs[k])])
               first == List([k \in 1..n |-> NetworkOf(addr[k], prefix[k])])
               last == List([k \in 1..n |-> BroadcastOf(addr[k], prefix[k])])
               inside(a, p) ==
                   \A k \in 1..n :
                       Leq(NetworkOf(a, p), first[k]) /\ Leq(last[k], BroadcastOf(a, p))
           IN  /\ \A k \in 1..n : q <= prefix[k]
               /\ inside(BlockAddr(ret.value), q)
               /\ \A longer \in (q + 1)..32 : ~inside(addr[1], longer)

C8_Witness ==
    /\ C8_Case /\ ret.ok
    /\ Len(call.cidrs) = 3
    /\ \A k \in 1..Len(call.cidrs) : BlockPrefix(ret.value) < BlockPrefix(call.cidrs[k])
    /\ BlockPrefix(ret.value) = 23

---------------------------------------------------------------------------
(* C9: for every address a and prefix length p in 0..32 the parsed block   *)
(* has network = a & mask(p), broadcast = network | ~mask(p),              *)
(* network <= a <= broadcast and                                           *)
(* total_addresses = broadcast - network + 1 = 2^(32-p); an unaligned base *)
(* is normalized by masking.                                               *)
C9_Case ==
    /\ call.op \in {"parse_cidr", "get_ip_range", "analyze_cidr"} /\ Done
    /\ WellFormedCidr(call.cidr)

C9_ParsedBlock ==
    C9_Case =>
        /\ ret.ok
        /\ LET a == BlockAddr(call.cidr)
               p == BlockPrefix(call.cidr)
               network == a \cap LeadingOnes(p)
               broadcast == network \cup (xFFFFFFFF \ LeadingOnes(p))
           IN  /\ Leq(network, a) /\ Leq(a, broadcast)
               /\ call.op = "parse_cidr" =>
                    /\ WellFormedIp(ret.value[1]) /\ AddrOf(ret.value[1]) = network
                    /\ WellFormedIp(ret.value[2]) /\ AddrOf(ret.value[2]) = broadcast
                    /\ ret.value[4] = p
               /\ call.op = "get_ip_range" => ret.value = <<network, broadcast>>
               /\ call.op = "analyze_cidr" =>
                    /\ AddrOf(ret.value.network_ip) = network
                    /\ AddrOf(ret.value.broadcast_ip) = broadcast
                    /\ ret.value.total_addresses = Add(Sub(broadcast, network), IntOf(1))
                    /\ ret.value.total_addresses = {32 - p}

C9_Witness ==
    /\ C9_Case /\ ret.ok
    /\ call.op = "analyze_cidr"
    /\ BlockPrefix(call.cidr) = 9
    /\ AddrOf(ret.value.network_ip) # BlockAddr(call.cidr)
    /\ ret.value.total_addresses = {23}

---------------------------------------------------------------------------
(* C10: for every prefix length p in 0..32 the netmask is a 32-bit value   *)
(* with exactly p leading one-bits followed by 32 - p zero-bits            *)
(* (mask(0) = 0, mask(32) = 0xFFFFFFFF); no mask and no masked value lies  *)
(* outside 0..2^32-1.                                                      *)
C10_Case ==
    /\ Done
    /\ \/ call.op = "get_subnet_mask_from_prefix" /\ call.prefix \in 0..32
       \/ call.op = "parse_cidr" /\ WellFormedCidr(call.cidr)

C10_NetmaskShape ==
    C10_Case =>
        /\ ret.ok
        /\ LET p == IF call.op = "parse_cidr" THEN BlockPrefix(call.cidr) ELSE call.prefix
               netmask == IF call.op = "parse_cidr" THEN ret.value[3] ELSE ret.value
           IN  /\ mask_bits(p) \subseteq xFFFFFFFF
               /\ mask_bits(p) = LeadingOnes(p)
               /\ Cardinality(mask_bits(p)) = p
               /\ WellFormedIp(netmask) /\ AddrOf(netmask) = LeadingOnes(p)
               /\ call.op = "parse_cidr" =>
                    /\ AddrOf(ret.value[1]) \subseteq xFFFFFFFF
                    /\ AddrOf(ret.value[2]) \subseteq xFFFFFFFF

C10_Witness ==
    /\ C10_Case /\ ret.ok
    /\ call.op = "parse_cidr"
    /\ BlockPrefix(call.cidr) = 0
    /\ ret.value[3] = Dotted(0, 0, 0, 0)
    /\ BlockAddr(call.cidr) = xFFFFFFFF

---------------------------------------------------------------------------
(* C2: after any sequence of analyze, batch_analyze,                       *)
(* analyze_with_distance, get_countries_distribution and clear_cache on    *)
(* one analyzer, analyze(ip) returns a result equal to what an analyzer    *)
(* without a cache returns for the same ip and table.                      *)
C2_CacheTransparent ==
    call.op = "analyze" => heap[ret.value] = geo_result(db, call.ip)

---------------------------------------------------------------------------
(* C4: for any table and any well-formed address a that some entry         *)
(* contains, analyze returns the metadata of the first entry in table      *)
(* order with start <= a <= end, plus the queried ip.                      *)
Containing(table, a) ==
    {k \in 1..Len(table) : Leq(table[k][1], a) /\ Leq(a, table[k][2])}

C4_Case ==
    /\ call.op = "analyze"
    /\ WellFormedIp(call.ip)
    /\ Containing(db, AddrOf(call.ip)) # {}

C4_FirstMatchInOrder ==
    C4_Case =>
        LET meta == db[Min(Containing(db, AddrOf(call.ip)))][3]
            result == heap[ret.value]
        IN  /\ result.ip = call.ip
            /\ \A key \in DOMAIN meta : key \in DOMAIN result /\ result[key] = meta[key]

C4_Witness ==
    /\ C4_Case
    /\ Cardinality(Containing(db, AddrOf(call.ip))) = 2
    /\ db[2][3] # db[1][3]
    /\ NatOf(Sub(db[2][2], db[2][1])) < NatOf(Sub(db[1][2], db[1][1]))
    /\ heap[ret.value].city = db[1][3].city

---------------------------------------------------------------------------
(* C5: the entries of the built-in GeoIP sample table are pairwise         *)
(* disjoint ranges, so that an address inside an entry is answered with    *)
(* that entry's metadata.                                                  *)
C5_SampleEntriesDisjoint ==
    db = _SAMPLE_DB =>
        /\ \A i, j \in 1..Len(db) :
                i < j => Lt(db[i][2], db[j][1]) \/ Lt(db[j][2], db[i][1])
        /\ (call.op = "analyze" /\ WellFormedIp(call.ip)) =>
                \A k \in Containing(db, AddrOf(call.ip)) :
                    heap[ret.value].city = db[k][3].city

---------------------------------------------------------------------------
(* C1: for any prefix table and any well-formed address a that some entry  *)
(* contains, analyze_ip returns the ASN of a most specific entry: one      *)
(* whose width end - start is the smallest among the entries with          *)
(* start <= a <= end.                                                      *)
Width(e) == NatOf(Sub(e[2], e[1]))

C1_MostSpecificEntry ==
    (/\ call.op = "analyze_ip"
     /\ WellFormedIp(call.ip)
     /\ Containing(prefix_table, AddrOf(call.ip)) # {})
    => \E k \in Containing(prefix_table, AddrOf(call.ip)) :
            /\ \A j \in Containing(prefix_table, AddrOf(call.ip)) :
                    Width(prefix_table[k]) <= Width(prefix_table[j])
            /\ heap[ret.value].asn = prefix_table[k][3]

---------------------------------------------------------------------------
(* C6: when threads run the cached lookup and clear_cache concurrently on  *)
(* one analyzer without a lock, under every interleaving no call fails,    *)
(* every value stored for a key equals the sequentially computed value,    *)
(* and every lookup returns that value.                                    *)
C6_RacesAreBenign ==
    /\ \A t \in DOMAIN threads :
        /\ threads[t].pc # "raised"
        /\ threads[t].pc = "returned" =>
                heap[threads[t].result] = geo_result(db, threads[t].ip_address)
    /\ \A ip \in DOMAIN geo_cache : heap[geo_cache[ip]] = geo_result(db, ip)

---------------------------------------------------------------------------
(* C11: analyze_cidr reports usable_hosts = total_addresses - 2 for every  *)
(* prefix length below 31 and 0 for prefix lengths 31 and 32; when         *)
(* usable_hosts > 0, first_usable = network + 1 and                        *)
(* last_usable = broadcast - 1, otherwise first_usable = network and       *)
(* last_usable = broadcast.                                                *)
C11_Case ==
    /\ call.op = "analyze_cidr" /\ Done
    /\ WellFormedCidr(call.cidr)

C11_UsableHosts ==
    C11_Case =>
        /\ ret.ok
        /\ LET p == BlockPrefix(call.cidr)
               network == NetworkOf(BlockAddr(call.cidr), p)
               broadcast == BroadcastOf(BlockAddr(call.cidr), p)
               usable == ret.value.usable_hosts
           IN  /\ p < 31 => usable = Sub({32 - p}, IntOf(2)) /\ usable # {}
               /\ p >= 31 => usable = {}
               /\ usable # {} =>
                    /\ AddrOf(ret.value.first_usable) = Add(network, IntOf(1))
                    /\ AddrOf(ret.value.last_usable) = Sub(broadcast, IntOf(1))
               /\ usable = {} =>
                    /\ AddrOf(ret.value.first_usable) = network
                    /\ AddrOf(ret.value.last_usable) = broadcast

C11_Witness ==
    /\ C11_Case /\ ret.ok
    /\ BlockPrefix(call.cidr) = 30
    /\ ret.value.usable_hosts = IntOf(2)
    /\ AddrOf(ret.value.first_usable) # AddrOf(ret.value.network_ip)
    /\ BlockAddr(call.cidr) # AddrOf(ret.value.network_ip)

---------------------------------------------------------------------------
(* C12: find_overlaps(a, b) is true exactly when the address ranges        *)
(* [network, broadcast] of the two blocks share at least one address, that *)
(* is iff not (a.end < b.start or b.end < a.start); the result is the same *)
(* with the two arguments exchanged.                                       *)

\* address x lies in the block a/p: it agrees with a on the p leading bits
InBlock(x, a, p) == x \cap LeadingOnes(p) = a \cap LeadingOnes(p)

\* two blocks share an address: two intervals meet iff one holds the other's start
ShareAddress(t1, t2) ==
    \E x \in {NetworkOf(BlockAddr(t1), BlockPrefix(t1)), NetworkOf(BlockAddr(t2), BlockPrefix(t2))} :
        /\ InBlock(x, BlockAddr(t1), BlockPrefix(t1))
        /\ InBlock(x, BlockAddr(t2), BlockPrefix(t2))

C12_Case ==
    /\ call.op = "find_overlaps" /\ Done
    /\ WellFormedCidr(call.cidr1) /\ WellFormedCidr(call.cidr2)

C12_OverlapIffShared ==
    C12_Case =>
        /\ ret.ok
        /\ ret.value \in BOOLEAN
        /\ ret.value <=> ShareAddress(call.cidr1, call.cidr2)
        /\ ret.value <=>
             ~ \/ Lt(BroadcastOf(BlockAddr(call.cidr1), BlockPrefix(call.cidr1)),
                     NetworkOf(BlockAddr(call.cidr2), BlockPrefix(call.cidr2)))
               \/ Lt(BroadcastOf(BlockAddr(call.cidr2), BlockPrefix(call.cidr2)),
                     NetworkOf(BlockAddr(call.cidr1), BlockPrefix(call.cidr1)))
        /\ find_overlaps(call.cidr2, call.cidr1) = ret

\* a disjoint pair whose first block lies above the second
C12_Witness ==
    /\ C12_Case /\ ret.ok /\ ret.value = FALSE
    /\ Lt(BroadcastOf(BlockAddr(call.cidr2), BlockPrefix(call.cidr2)),
          NetworkOf(BlockAddr(call.cidr1), BlockPrefix(call.cidr1)))

---------------------------------------------------------------------------
(* C13: for a list of valid blocks, the overlaps reported by               *)
(* analyze_multiple_ranges are exactly the index pairs i < j whose ranges  *)
(* overlap: each overlapping pair appears once, in lexicographic (i, j)    *)
(* order, no non-overlapping pair appears and no block is paired with      *)
(* itself.                                                                 *)

\* the index pairs i < j of the blocks that share an address
OverlappingPairs(cidrs) ==
    {q \in (1..Len(cidrs)) \X (1..Len(cidrs)) : q[1] < q[2] /\ ShareAddress(cidrs[q[1]], cidrs[q[2]])}

\* the place of pair q among the pairs, in lexicographic order
PlaceOf(q, pairs) ==
    1 + Cardinality({r \in pairs : r[1] < q[1] \/ (r[1] = q[1] /\ r[2] < q[2])})

C13_Case ==
    /\ call.op = "analyze_multiple_ranges" /\ Done
    /\ call.cidrs # <<>>
    /\ \A k \in 1..Len(call.cidrs) : WellFormedCidr(call.cidrs[k])

C13_OverlapsAreThePairs ==
    C13_Case =>
        /\ ret.ok
        /\ LET pairs == OverlappingPairs(call.cidrs)
               overlaps == ret.value.overlaps
           IN  /\ Len(overlaps) = Cardinality(pairs)
               /\ \A q \in pairs :
                    overlaps[PlaceOf(q, pairs)] =
                        [cidr1 |-> call.cidrs[q[1]], cidr2 |-> call.cidrs[q[2]]]

\* three blocks, the first and the last pair of which overlap, the middle one not
C13_Witness ==
    /\ C13_Case /\ ret.ok
    /\ OverlappingPairs(call.cidrs) = {<<1, 2>>, <<2, 3>>}
    /\ Len(ret.value.overlaps) = 2

---------------------------------------------------------------------------
(* C14: for every well-formed address covered by no table entry, the       *)
(* lookup operations (analyze, analyze_ip, find_origin) return a defined   *)
(* not-found result, with empty payload fields and found = false, and      *)
(* never raise or return an error result.                                  *)

\* the result dict of the lookup that has just returned
LookupResult == IF call.op = "analyze_ip" THEN heap[ret.value] ELSE ret.value

\* the address a lookup was asked about
LookupAddress == IF call.op = "analyze_ip" THEN call.ip ELSE Split(call.route_prefix, "/")[1]

C14_Case ==
    /\ call.op \in {"analyze_ip", "find_origin"}
    /\ WellFormedIp(LookupAddress)
    /\ call.op = "find_origin" => call.route_prefix \in {LookupAddress, LookupAddress \o <<"/", "2", "4">>}
    /\ Containing(prefix_table, AddrOf(LookupAddress)) = {}

C14_MissIsNotFound ==
    C14_Case =>
        /\ ret.ok
        /\ "error" \notin DOMAIN LookupResult
        /\ "found" \in DOMAIN LookupResult
        /\ LookupResult.found = FALSE
        /\ \A f \in {"asn", "as_name", "origin", "community"} : LookupResult[f] = None

---------------------------------------------------------------------------
(* C15: get_prefixes_for_asn(asn) returns CIDR blocks that exactly cover   *)
(* the address ranges of all entries whose ASN equals asn, contiguous      *)
(* matching entries being coalesced so that the list is the minimal set of *)
(* CIDR blocks covering them.                                              *)

\* the addresses lo..hi
RangeSet(lo, hi) == {Add(lo, IntOf(k)) : k \in 0..NatOf(Sub(hi, lo))}

\* the addresses of the block a/p
BlockSet(a, p) == RangeSet(NetworkOf(a, p), BroadcastOf(a, p))

\* the addresses of the entries of the ASN
CoveredBy(table, asn) ==
    UNION {RangeSet(table[k][1], table[k][2]) : k \in {j \in 1..Len(table) : table[j][3] = asn}}

\* a list of blocks is the minimal cover of a set of addresses when the blocks
\* cover exactly the set, are pairwise distinct, and none can grow: the
\* block of twice the size around it is not inside the set
MinimalCover(blocks, covered) ==
    /\ \A i \in 1..Len(blocks) : WellFormedCidr(blocks[i])
    /\ UNION {BlockSet(BlockAddr(blocks[i]), BlockPrefix(blocks[i])) : i \in 1..Len(blocks)} = covered
    /\ \A i, j \in 1..Len(blocks) : i # j => blocks[i] # blocks[j]
    /\ \A i \in 1..Len(blocks) :
            BlockPrefix(blocks[i]) > 0 =>
                ~(BlockSet(BlockAddr(blocks[i]), BlockPrefix(blocks[i]) - 1) \subseteq covered)

C15_MinimalBlocksOfAsn ==
    call.op = "get_prefixes_for_asn" =>
        /\ ret.ok
        /\ MinimalCover(ret.value, CoveredBy(prefix_table, call.asn))

---------------------------------------------------------------------------
(* C16: every query call returns a fresh result object, one that is        *)
(* neither the object stored in the cache nor an object returned by        *)
(* another call, so that a change made to a returned result is never seen  *)
(* in the result of a later query for the same address.                    *)
C16_ResultIsFresh ==
    call.op = "analyze_ip" =>
        /\ ret.ok
        /\ ret.value \in DOMAIN heap
        /\ \A ip \in DOMAIN bgp_cache : bgp_cache[ip] # ret.value

---------------------------------------------------------------------------
(* C17: supernet of an empty list fails with ValueError (EmptyInput) and   *)
(* never yields a default block; supernet of a single block returns that   *)
(* block itself.                                                           *)
C17_Case ==
    /\ call.op = "supernet" /\ Done
    /\ Len(call.cidrs) <= 1

C17_EmptyFailsSingleIsItself ==
    C17_Case =>
        /\ call.cidrs = <<>> => ~ret.ok /\ ret = Raise("ValueError")
        /\ Len(call.cidrs) = 1 => ret = Return(call.cidrs[1])

C17_Witness ==
    /\ C17_Case
    /\ call.cidrs = <<>>
    /\ ~ret.ok

---------------------------------------------------------------------------
(* C18: subnet_division(block, n) with n <= block.prefix does not raise:   *)
(* it returns the one-element list holding the original block, unchanged.  *)
C18_Case ==
    /\ call.op = "subnet_division" /\ Done
    /\ WellFormedCidr(call.cidr)
    /\ call.new_prefix <= BlockPrefix(call.cidr)

C18_NoDivisionReturnsBlock ==
    C18_Case =>
        /\ ret.ok
        /\ ret.value = <<call.cidr>>

\* a shorter prefix is asked of a block whose address is not its network address
C18_Witness ==
    /\ C18_Case /\ ret.ok
    /\ call.new_prefix < BlockPrefix(call.cidr)
    /\ BlockAddr(call.cidr) # NetworkOf(BlockAddr(call.cidr), BlockPrefix(call.cidr))

---------------------------------------------------------------------------
(* C19: for every address value a in 0 .. 2^32 - 1,                        *)
(* ip_to_int(int_to_ip(a)) = a, and int_to_ip(a) is the dotted quad of the *)
(* big-endian bytes of a.                                                  *)

\* the text t with the leading zeros of every octet stripped
Unpadded(t) ==
    LET g == Split(t, ".")
    IN  Dotted(DecVal(g[1]), DecVal(g[2]), DecVal(g[3]), DecVal(g[4]))

C19_Case == call.op = "int_to_ip" /\ Done

C19_IntRoundTrip ==
    C19_Case =>
        /\ ret.ok
        /\ WellFormedIp(ret.value)
        /\ Unpadded(ret.value) = ret.value
        /\ AddrOf(ret.value) = call.num
        /\ ip_to_int(ret.value) = Return(call.num)

\* an address whose four bytes differ, the first one having its top bit set
C19_Witness ==
    /\ C19_Case /\ ret.ok
    /\ ret.value = Dotted(192, 168, 0, 254)
    /\ 31 \in call.num

---------------------------------------------------------------------------
(* C20: for every text s that is_valid_ipv4 accepts,                       *)
(* int_to_ip(ip_to_int(s)) equals s with the leading zeros of every octet  *)
(* stripped: the octets are read as decimal numbers and the conversion     *)
(* never fails.                                                            *)
C20_Case ==
    /\ call.op = "ip_to_int" /\ Done
    /\ is_valid_ipv4(call.ip)

C20_TextRoundTrip ==
    C20_Case =>
        /\ ret.ok
        /\ ret.value = AddrOf(UpToSpace(call.ip))
        /\ int_to_ip(ret.value) = Unpadded(UpToSpace(call.ip))

---------------------------------------------------------------------------
(* C21: ip_to_int fails with an invalid-address error for every text that  *)
(* is not exactly four dot-separated decimal octets each in 0..255 (fewer  *)
(* or more than four parts, non-decimal parts, surrounding whitespace),    *)
(* and never maps such a text to some address.                             *)
C21_Case ==
    /\ call.op = "ip_to_int" /\ Done
    /\ ~WellFormedIp(call.ip)

C21_MalformedIpRaises ==
    C21_Case => ret = Raise("ValueError")

---------------------------------------------------------------------------
(* C22: classify returns for every address exactly one of Loopback,        *)
(* Link-Local, Private, Public: Loopback iff the address is in             *)
(* 127.0.0.0/8, Link-Local iff in 169.254.0.0/16, Private iff in           *)
(* 10.0.0.0/8, 172.16.0.0/12 or 192.168.0.0/16, and Public otherwise,      *)
(* the first and the last address of each range included.                  *)

\* address a lies in the block written as Cidr text
InCidr(a, t) == InBlock(a, BlockAddr(t), BlockPrefix(t))

ClassOf(a) ==
    IF InCidr(a, Cidr(AddrOf(Dotted(127, 0, 0, 0)), 8)) THEN "Loopback"
    ELSE IF InCidr(a, Cidr(AddrOf(Dotted(169, 254, 0, 0)), 16)) THEN "Link-Local"
    ELSE IF \/ InCidr(a, Cidr(AddrOf(Dotted(10, 0, 0, 0)), 8))
            \/ InCidr(a, Cidr(AddrOf(Dotted(172, 16, 0, 0)), 12))
            \/ InCidr(a, Cidr(AddrOf(Dotted(192, 168, 0, 0)), 16)) THEN "Private"
    ELSE "Public"

C22_Case ==
    /\ call.op = "classify" /\ Done
    /\ WellFormedIp(call.ip)

C22_ClassifyByRange ==
    C22_Case =>
        /\ ret.ok
        /\ ret.value = ClassOf(AddrOf(call.ip))

\* the last address of 172.16.0.0/12
C22_Witness ==
    /\ C22_Case /\ ret.ok
    /\ call.ip = Dotted(172, 31, 255, 255)
    /\ ret.value = "Private"

---------------------------------------------------------------------------
(* C27: for any two valid CIDR blocks a and b, find_overlaps(a, b) is true *)
(* iff the address range of one block is entirely contained in that of the *)
(* other: two CIDR blocks never overlap partially.                         *)

\* the range of block t1 lies inside the range of block t2
RangeInside(t1, t2) ==
    /\ Leq(NetworkOf(BlockAddr(t2), BlockPrefix(t2)), NetworkOf(BlockAddr(t1), BlockPrefix(t1)))
    /\ Leq(BroadcastOf(BlockAddr(t1), BlockPrefix(t1)), BroadcastOf(BlockAddr(t2), BlockPrefix(t2)))

C27_Case ==
    /\ call.op = "find_overlaps" /\ ret # Pending
    /\ WellFormedCidr(call.cidr1) /\ WellFormedCidr(call.cidr2)

C27_OverlapIsContainment ==
    C27_Case =>
        /\ ret.ok
        /\ ret.value <=> (RangeInside(call.cidr1, call.cidr2) \/ RangeInside(call.cidr2, call.cidr1))

\* the second block lies strictly inside the first, whose text is not aligned
C27_Witness ==
    /\ C27_Case /\ ret.ok /\ ret.value
    /\ RangeInside(call.cidr2, call.cidr1) /\ ~RangeInside(call.cidr1, call.cidr2)
    /\ BlockAddr(call.cidr1) # NetworkOf(BlockAddr(call.cidr1), BlockPrefix(call.cidr1))

---------------------------------------------------------------------------
(* C28: for every non-empty list of CIDR strings, the block returned by    *)
(* supernet is normalized: its address part equals its own network address *)
(* under the returned prefix length (address & mask(prefix) = address),    *)
(* and the prefix is in 0..32.                                             *)

\* the text is a block whose address is the network address of the block
Normalized(t) ==
    /\ WellFormedCidr(t)
    /\ BlockAddr(t) = NetworkOf(BlockAddr(t), BlockPrefix(t))

C28_Case ==
    /\ call.op = "supernet" /\ Done
    /\ call.cidrs # <<>>
    /\ \A k \in 1..Len(call.cidrs) : WellFormedCidr(call.cidrs[k])

\* the claim as stated: every non-empty list
C28_SupernetNormalized ==
    C28_Case => ret.ok /\ Normalized(ret.value)

\* the claim amended: lists of two or more blocks; one block is returned as written
C28_SupernetOfSeveralNormalized ==
    C28_Case =>
        /\ ret.ok
        /\ Len(call.cidrs) >= 2 => Normalized(ret.value)
        /\ Len(call.cidrs) = 1 => ret.value = call.cidrs[1]

\* two blocks, the first written with an address that is not its network address
C28_Witness ==
    /\ C28_Case /\ ret.ok
    /\ Len(call.cidrs) = 2
    /\ ~Normalized(call.cidrs[1])
    /\ BlockPrefix(ret.value) = BlockPrefix(call.cidrs[1])

---------------------------------------------------------------------------
(* C29: for a list of two or more valid CIDR blocks, the result of         *)
(* supernet does not depend on the order of the list: every permutation of *)
(* the inputs yields the same block.                                       *)

\* the lists that hold the elements of list s in another order
Reorderings(s) ==
    {[k \in 1..Len(s) |-> s[f[k]]] :
        f \in {g \in [1..Len(s) -> 1..Len(s)] : \A i, j \in 1..Len(s) : i # j => g[i] # g[j]}}

C29_Case ==
    /\ call.op = "supernet" /\ Done
    /\ Len(call.cidrs) >= 2
    /\ \A k \in 1..Len(call.cidrs) : WellFormedCidr(call.cidrs[k])

C29_SupernetOrderFree ==
    C29_Case =>
        /\ ret.ok
        /\ \A cidrs \in Reorderings(call.cidrs) : supernet(cidrs) = ret

\* three blocks, the one of the shortest prefix length not the first, and a
\* result wider than each of them
C29_Witness ==
    /\ C29_Case /\ ret.ok
    /\ Len(call.cidrs) = 3
    /\ BlockPrefix(call.cidrs[2]) < BlockPrefix(call.cidrs[1])
    /\ BlockPrefix(ret.value) < BlockPrefix(call.cidrs[2])

---------------------------------------------------------------------------
(* C30: for every valid CIDR block, the list returned by get_usable_ips    *)
(* has exactly analyze_cidr(block).usable_hosts elements, in ascending     *)
(* order from first_usable to last_usable when usable_hosts > 0 and empty  *)
(* otherwise; generate_ip_list(block, limit) is its first                  *)
(* min(limit, usable_hosts) elements.                                      *)

\* the list ips is made of n addresses going up by one from the address first
Ascending(ips, n, first) ==
    /\ Len(ips) = n
    /\ \A i \in 1..n : WellFormedIp(ips[i]) /\ AddrOf(ips[i]) = Add(AddrOf(first), IntOf(i - 1))

C30_Case ==
    /\ call.op \in {"get_usable_ips", "generate_ip_list"} /\ Done
    /\ WellFormedCidr(call.cidr)
    /\ call.op = "generate_ip_list" => call.limit >= 0

---------------------------------------------------------------------------
(* C25: in analyze_ip, when several table entries containing the queried   *)
(* address have the same width end - start and no narrower entry contains  *)
(* it, the entry that comes first in table order is the one selected.      *)

\* the entries that contain address a and are as narrow as any that does
Narrowest(table, a) ==
    {k \in Containing(table, a) :
        \A j \in Containing(table, a) : Width(table[k]) <= Width(table[j])}

C25_Case ==
    /\ call.op = "analyze_ip"
    /\ WellFormedIp(call.ip)
    /\ Cardinality(Narrowest(prefix_table, AddrOf(call.ip))) >= 2

C25_FirstOfTiedEntries ==
    C25_Case =>
        \E k \in {Min(Narrowest(prefix_table, AddrOf(call.ip)))} :
            /\ heap[ret.value].asn = prefix_table[k][3]
            /\ heap[ret.value].as_name = prefix_table[k][4]

---------------------------------------------------------------------------
(* C26: for every prefix table entry (start <= end) and every address a    *)
(* with start <= a <= end, the route_prefix that analyze_ip(a) reports for *)
(* the selected entry is a CIDR block start/p with p in 0..32 whose        *)
(* address range contains a.                                               *)
C26_Case ==
    /\ call.op = "analyze_ip"
    /\ WellFormedIp(call.ip)
    /\ Containing(prefix_table, AddrOf(call.ip)) # {}

C26_RoutePrefixContainsAddress ==
    C26_Case =>
        \E t \in {heap[ret.value].route_prefix} :
            /\ WellFormedCidr(t)
            /\ \E k \in Containing(prefix_table, AddrOf(call.ip)) : BlockAddr(t) = prefix_table[k][1]
            /\ InBlock(AddrOf(call.ip), BlockAddr(t), BlockPrefix(t))

\* C24: after any sequence of additions to and removals from the whitelist
\* and the blacklist, analyze_threat(ip) returns a risk_score in 0..100; the
\* score is 0 and whitelisted is True exactly when ip is on the whitelist at
\* the time of the call, whatever the blacklist and the threat database say;
\* and the threat_level is the one the score thresholds give (CRITICAL from
\* 90, HIGH from 70, MEDIUM from 50, LOW from 20, UNKNOWN below).
C24_Case == call.op = "analyze_threat" /\ ret.ok

LevelOf(score) ==
    IF score >= 90 THEN "CRITICAL"
    ELSE IF score >= 70 THEN "HIGH"
    ELSE IF score >= 50 THEN "MEDIUM"
    ELSE IF score >= 20 THEN "LOW"
    ELSE "UNKNOWN"

C24_WhitelistOverrides ==
    C24_Case =>
        /\ ret.value.risk_score \in 0..100
        /\ (ret.value.risk_score = 0) <=> (call.ip \in whitelist)
        /\ (ret.value.whitelisted = TRUE) <=> (call.ip \in whitelist)
        /\ ret.value.threat_level = LevelOf(ret.value.risk_score)

C24_Witness ==
    /\ C24_Case
    /\ call.ip \in whitelist \cap blacklist
    /\ call.ip \in DOMAIN threat_db
    /\ ret.value.risk_score = 0
    /\ Len(history[call.ip]) = 1

\* C23: DNSBulkProcessor is thread-safe: when forward_lookup_batch over n
\* entries has finished on a processor with more than one worker thread, the
\* counters forward lookups + cached hits + errors have grown by exactly n
\* since the batch began, under every interleaving of the workers: no
\* counter update is lost.
Counted(s) == s.forward + s.cached + s.errors

C23_Case == call.op = "forward_lookup_batch" /\ ret.ok /\ pool > 1

C23_NoLostUpdate == C23_Case => Counted(stats) = Counted(call.before) + Len(call.hostnames)

====
